---- MODULE Spec2Model ----
(***************************************************************************)
(* Verification model of kommo-crm/react-hooks.                            *)
(*                                                                         *)
(* Part 1: the geometry kernel of useIsAiming (cross, pointInTriangle,     *)
(* pointInRectangle, lineSegmentIntersection, clipTriangleByRectangle,     *)
(* polygonArea, findBestIntentEdge), computed in exact rational            *)
(* arithmetic: a point of a clip polygon is carried multiplied by a        *)
(* common denominator K, an area is carried multiplied by 2*K*K.           *)
(*                                                                         *)
(* Part 2: the aiming engine (the refs of useIsAiming, its mousemove       *)
(* listener, its idle timer and its effect), one action per handler.       *)
(* Distances are carried in 1/Scale of a pixel.                            *)
(***************************************************************************)
EXTENDS Integers, Sequences, FiniteSets, TLC

(***************************************************************************)
(* Bounds of the model.                                                    *)
(***************************************************************************)
\* Cursor samples are the points of the grid (0..MaxX) x (0..MaxY).
MaxX == 3
MaxY == 2
\* The tolerance option (pixels) is 2 or MaxTolerance.
MaxTolerance == 4
\* The idleTimeout option (time units) is 1 or MaxIdleTimeout.
MaxIdleTimeout == 2

\* Distances are carried in 1/Scale of a pixel.
Scale == 1000

\* The geometry kernel on its own is evaluated on the grid (0..GeoMax) x (0..GeoMax).
GeoMax == 5

\* The cursor samples of useMenuAim are the points of the grid
\* (0..MenuMax) x (0..MenuMax).
MenuMax == 4
\* The tolerance option of useMenuAim (pixels) is 0..MaxMenuTolerance.
MaxMenuTolerance == 1

\* pointInTriangle on its own is evaluated on the grid (0..TriMax) x (0..TriMax).
TriMax == 2

\* useOnOutsideClick and useOnOutsideMouseMove: the components that use one of the
\* hooks, and the runs of the effect of the hooks.
MaxInstances == 2
MaxEffects == 3

\* useKeyboardListNavigation: itemsLength is 0..MaxItems.
MaxItems == 3

\* useDeepCompareEffect and usePrevious: the numbers among the values are
\* 0..MaxValue.
MaxValue == 1

\* usePrevious: the host renders the hook up to MaxRenders times.
MaxRenders == 4

\* The largest wait of throttle, and how far its clock advances.
MaxWait == 2

MaxTime == 5

\* RECALC_DELAY of useMenuAim (ms).
RECALC_DELAY == 100

(***************************************************************************)
(* Small helpers.                                                          *)
(***************************************************************************)
Abs(n) == IF n < 0 THEN -n ELSE n

Min2(a, b) == IF a <= b THEN a ELSE b

Max2(a, b) == IF a >= b THEN a ELSE b

RECURSIVE Gcd(_, _)
Gcd(a, b) == IF b = 0 THEN a ELSE Gcd(b, a % b)

Lcm(a, b) == IF a = 0 THEN b ELSE IF b = 0 THEN a ELSE (a * b) \div Gcd(a, b)

Pt(px, py) == [x |-> px, y |-> py]

(***************************************************************************)
(* Geometry kernel.                                                        *)
(***************************************************************************)
cross(o, a, b) == (a.x - o.x) * (b.y - o.y) - (a.y - o.y) * (b.x - o.x)

\* A pointInTriangle that leaves out the side from c to a.
pointInTriangleTwoSides(p, a, b, c) ==
  LET d1 == cross(p, a, b)
      d2 == cross(p, b, c)
  IN ~((d1 < 0 \/ d2 < 0) /\ (d1 > 0 \/ d2 > 0))

pointInTriangle(p, a, b, c) ==
  LET d1 == cross(p, a, b)
      d2 == cross(p, b, c)
      d3 == cross(p, c, a)
      hasNeg == d1 < 0 \/ d2 < 0 \/ d3 < 0
      hasPos == d1 > 0 \/ d2 > 0 \/ d3 > 0
  IN ~(hasNeg /\ hasPos)

\* Twice the area of the triangle (the code divides the absolute cross product by 2).
triangleArea(a, b, c) == Abs(cross(a, b, c))

\* The vertices of an element's bounding rectangle, in page coordinates:
\* top-left, top-right, bottom-right, bottom-left.
getElementVertices(elem) ==
  << Pt(elem.left, elem.top), Pt(elem.right, elem.top),
     Pt(elem.right, elem.bottom), Pt(elem.left, elem.bottom) >>

\* A containment test that leaves the border out.
pointInRectangleStrict(p, rectVertices) ==
  /\ p.x > rectVertices[1].x /\ p.x < rectVertices[3].x
  /\ p.y > rectVertices[1].y /\ p.y < rectVertices[3].y

pointInRectangle(p, rectVertices) ==
  LET tl == rectVertices[1]
      tr == rectVertices[2]
      br == rectVertices[3]
      bl == rectVertices[4]
      minX == Min2(tl.x, bl.x)
      maxX == Max2(tr.x, br.x)
      minY == Min2(tl.y, tr.y)
      maxY == Max2(bl.y, br.y)
  IN p.x >= minX /\ p.x <= maxX /\ p.y >= minY /\ p.y <= maxY

\* Twice the shoelace area of a polygon whose points are carried multiplied by K
\* (so the value is 2*K*K times the area); 0 for fewer than 3 points.
RECURSIVE shoelace(_, _)
shoelace(points, i) ==
  IF i > Len(points) THEN 0
  ELSE LET j == (i % Len(points)) + 1
       IN points[i].x * points[j].y - points[j].x * points[i].y
          + shoelace(points, i + 1)

\* A polygonArea that forgets to halve the shoelace sum.
polygonAreaNotHalved(points) ==
  IF Len(points) < 3 THEN 0 ELSE 2 * Abs(shoelace(points, 1))

polygonArea(points) ==
  IF Len(points) < 3 THEN 0 ELSE Abs(shoelace(points, 1))

\* The intersection of segments p1-p2 and p3-p4 (integer end points), multiplied
\* by K, or << >> when the segments are parallel or do not meet. ua, ub are the
\* quotients nua / denom, nub / denom of the code.
lineSegmentIntersection(p1, p2, p3, p4, K) ==
  LET denom == (p4.y - p3.y) * (p2.x - p1.x) - (p4.x - p3.x) * (p2.y - p1.y)
      nua == (p4.x - p3.x) * (p1.y - p3.y) - (p4.y - p3.y) * (p1.x - p3.x)
      nub == (p2.x - p1.x) * (p1.y - p3.y) - (p2.y - p1.y) * (p1.x - p3.x)
      sg == IF denom < 0 THEN -1 ELSE 1
      outside(n) == sg * n < 0 \/ sg * n > sg * denom
  IN IF denom = 0 THEN << >>
     ELSE IF outside(nua) \/ outside(nub) THEN << >>
     ELSE << Pt(K * p1.x + (K * nua * (p2.x - p1.x)) \div denom,
                K * p1.y + (K * nua * (p2.y - p1.y)) \div denom) >>

\* The common denominator of every intersection point of a triangle (cursor, a, b),
\* a and b vertices of the rectangle, with the sides of the rectangle: the least
\* common multiple of the cursor's non-zero coordinate distances to the vertices.
RECURSIVE lcmOfDistances(_, _, _)
lcmOfDistances(cursor, vertices, i) ==
  IF i > Len(vertices) THEN 1
  ELSE Lcm(Lcm(Abs(cursor.x - vertices[i].x), Abs(cursor.y - vertices[i].y)),
           lcmOfDistances(cursor, vertices, i + 1))

scalePoint(p, K) == Pt(K * p.x, K * p.y)

\* Triangle vertices inside the rectangle, in the order a, b, c.
RECURSIVE insidePoints(_, _, _, _)
insidePoints(triangleVertices, rectVertices, K, i) ==
  IF i > 3 THEN << >>
  ELSE (IF pointInRectangle(triangleVertices[i], rectVertices)
          THEN << scalePoint(triangleVertices[i], K) >> ELSE << >>)
       \o insidePoints(triangleVertices, rectVertices, K, i + 1)

\* Intersections of the 3 triangle edges with the 4 rectangle edges: the double
\* loop of the code, flattened (k = 4 * triangle edge + rectangle edge).
RECURSIVE edgeIntersections(_, _, _, _)
edgeIntersections(triangleVertices, rectVertices, K, k) ==
  IF k >= 12 THEN << >>
  ELSE LET t == (k \div 4) + 1
           r == (k % 4) + 1
       IN lineSegmentIntersection(triangleVertices[t], triangleVertices[(t % 3) + 1],
                                  rectVertices[r], rectVertices[(r % 4) + 1], K)
          \o edgeIntersections(triangleVertices, rectVertices, K, k + 1)

\* Removal of duplicates, the first occurrence kept. Two distinct points of the
\* model are at least 1/K apart, far more than the 1e-6 of the code.
RECURSIVE uniquePointsOf(_, _, _)
uniquePointsOf(points, i, acc) ==
  IF i > Len(points) THEN acc
  ELSE uniquePointsOf(points, i + 1,
         IF \E k \in 1..Len(acc) : acc[k] = points[i] THEN acc
         ELSE Append(acc, points[i]))

RECURSIVE sumX(_, _)
sumX(points, i) == IF i > Len(points) THEN 0 ELSE points[i].x + sumX(points, i + 1)

RECURSIVE sumY(_, _)
sumY(points, i) == IF i > Len(points) THEN 0 ELSE points[i].y + sumY(points, i + 1)

\* The quadrant class of Math.atan2(v.y, v.x): (-pi, 0), 0, (0, pi), pi.
angleClass(v) ==
  IF v.y < 0 THEN 0
  ELSE IF v.y > 0 THEN 2
  ELSE IF v.x >= 0 THEN 1 ELSE 3

\* atan2(v) < atan2(w).
angleLess(v, w) ==
  \/ angleClass(v) < angleClass(w)
  \/ /\ angleClass(v) = angleClass(w)
     /\ angleClass(v) \in {0, 2}
     /\ v.x * w.y - v.y * w.x > 0

\* compareByAngle(p1, p2) < 0: the points' directions from the centroid, the
\* centroid being (sx / n, sy / n).
compareByAngle(p1, p2, sx, sy, n) ==
  angleLess(Pt(n * p1.x - sx, n * p1.y - sy), Pt(n * p2.x - sx, n * p2.y - sy))

\* Array.prototype.sort with compareByAngle: a stable sort.
RECURSIVE insertByAngle(_, _, _, _, _, _)
insertByAngle(sorted, p, i, sx, sy, n) ==
  IF i > Len(sorted) THEN Append(sorted, p)
  ELSE IF compareByAngle(p, sorted[i], sx, sy, n)
       THEN SubSeq(sorted, 1, i - 1) \o << p >> \o SubSeq(sorted, i, Len(sorted))
       ELSE insertByAngle(sorted, p, i + 1, sx, sy, n)

RECURSIVE sortByAngle(_, _, _, _, _, _)
sortByAngle(points, i, acc, sx, sy, n) ==
  IF i > Len(points) THEN acc
  ELSE sortByAngle(points, i + 1, insertByAngle(acc, points[i], 1, sx, sy, n), sx, sy, n)

\* The intersection polygon of the triangle and the rectangle, its points
\* multiplied by K.
clipTriangleByRectangle(triangleVertices, rectVertices, K) ==
  LET points == insidePoints(triangleVertices, rectVertices, K, 1)
                \o edgeIntersections(triangleVertices, rectVertices, K, 0)
      uniquePoints == uniquePointsOf(points, 1, << >>)
  IN IF Len(uniquePoints) < 3 THEN << >>
     ELSE sortByAngle(uniquePoints, 1, << >>, sumX(uniquePoints, 1),
                      sumY(uniquePoints, 1), Len(uniquePoints))

\* 2*K*K times the overlap area.
triangleRectangleOverlapArea(cursor, a, b, rectVertices, K) ==
  LET intersectionPolygon == clipTriangleByRectangle(<< cursor, a, b >>, rectVertices, K)
  IN IF Len(intersectionPolygon) < 3 THEN 0 ELSE polygonArea(intersectionPolygon)

pairs == << <<1, 2>>, <<1, 3>>, <<1, 4>>, <<2, 3>>, <<2, 4>>, <<3, 4>> >>

\* An outside area that forgets to subtract the overlap.
outsideAreaOfWholeTriangle(cursor, a, b, vertices, K) ==
  K * K * triangleArea(cursor, a, b)

\* 2*K*K times the outside area of the triangle (cursor, a, b).
outsideAreaOf(cursor, a, b, vertices, K) ==
  K * K * triangleArea(cursor, a, b) - triangleRectangleOverlapArea(cursor, a, b, vertices, K)

\* A loop of findBestIntentEdge in which the last of the pairs of maximal outside
\* area wins.
RECURSIVE bestEdgeFromLastWins(_, _, _, _, _)
bestEdgeFromLastWins(cursor, vertices, K, i, best) ==
  IF i > Len(pairs) THEN best
  ELSE LET a == vertices[pairs[i][1]]
           b == vertices[pairs[i][2]]
           outsideArea == outsideAreaOf(cursor, a, b, vertices, K)
       IN bestEdgeFromLastWins(cursor, vertices, K, i + 1,
            IF outsideArea >= best.max
              THEN [edge |-> << a, b >>, max |-> outsideArea]
              ELSE best)

\* The loop of findBestIntentEdge from pair i on; best = [edge, max], edge = << >>
\* standing for null, max being 2*K*K times maxOutsideArea.
RECURSIVE bestEdgeFrom(_, _, _, _, _)
bestEdgeFrom(cursor, vertices, K, i, best) ==
  IF i > Len(pairs) THEN best
  ELSE LET a == vertices[pairs[i][1]]
           b == vertices[pairs[i][2]]
           outsideArea == outsideAreaOf(cursor, a, b, vertices, K)
       IN bestEdgeFrom(cursor, vertices, K, i + 1,
            IF outsideArea > best.max
              THEN [edge |-> << a, b >>, max |-> outsideArea]
              ELSE best)

findBestIntentEdge(cursor, vertices) ==
  LET K == lcmOfDistances(cursor, vertices, 1)
  IN bestEdgeFrom(cursor, vertices, K, 1, [edge |-> << >>, max |-> -2 * K * K]).edge

isMovingTowardTriangle(prev, current, edgeA, edgeB) ==
  pointInTriangle(current, prev, edgeA, edgeB)

(***************************************************************************)
(* The aiming engine: useIsAiming.                                         *)
(***************************************************************************)
VARIABLES
  mounted,                 \* the host component is mounted
  isEnabled,               \* options of the latest render
  tolerance,
  idleTimeout,
  handler,
  recalcHandler,           \* the handler the memoized recalc closes over
  effectHandler,           \* the handler the effect (listener, timer) closes over
  listener,                \* onMouseMove is attached to the document
  el,                      \* ref.current: NoEl or the element's bounding rectangle
  isAimingRef,
  lastCursorRef,
  prevCursorRef,
  lastRecalcCursorRef,
  accumulatedMovementRef,
  idleTimeoutRef,          \* 0 for null, else a timer id
  timers,                  \* the pending timeouts: [id, left, handler]
  calls,                   \* the handler invocations of the latest step
  ev,                      \* what the latest step was
  lastMove,                \* the latest processed move and the time since
  other,                   \* the refs of a second instance fed the same events
  geo,                     \* an evaluation of the geometry kernel: input and result
  menu,                    \* the instance of useMenuAim: options, refs, timeouts
  hook                     \* the hooks without geometry: registries, instances, events

vars == << mounted, isEnabled, tolerance, idleTimeout, handler, recalcHandler,
           effectHandler, listener, el, isAimingRef, lastCursorRef, prevCursorRef,
           lastRecalcCursorRef, accumulatedMovementRef, idleTimeoutRef, timers,
           calls, ev, lastMove, other, geo, menu, hook >>

\* The instance of useIsAiming.
engineVars ==
  << mounted, isEnabled, tolerance, idleTimeout, handler, recalcHandler,
     effectHandler, listener, el, isAimingRef, lastCursorRef, prevCursorRef,
     lastRecalcCursorRef, accumulatedMovementRef, idleTimeoutRef, timers,
     calls, ev, lastMove >>

\* What the steps of the engine leave alone.
aux == << other, geo, menu, hook >>

Null == [none |-> TRUE]

NoEl == [none |-> TRUE]

NoHandler == 0

Points == { Pt(px, py) : px \in 0..MaxX, py \in 0..MaxY }

\* The bounding rectangle of the target element (page coordinates).
TargetRect == [left |-> 2, top |-> 0, right |-> 4, bottom |-> 2]

Rects == { TargetRect }

\* Bounding rectangles without an area: that of an element that is not laid out
\* (all zeros), and one of zero width.
ZeroRect == [left |-> 0, top |-> 0, right |-> 0, bottom |-> 0]

DegenerateRects == { ZeroRect, [left |-> 2, top |-> 0, right |-> 2, bottom |-> 2] }

\* The cursor samples of the runs in which the host re-renders with other options:
\* away from the target, toward it, inside it.
PropsPoints == { Pt(0, 1), Pt(1, 1), Pt(3, 1) }

Tolerances == { 2, MaxTolerance }

IdleTimeouts == { 1, MaxIdleTimeout }

Handlers == { 1, 2 }

\* Math.sqrt(n), in 1/Scale of a pixel, rounded down.
sqrtScaled(n) ==
  CHOOSE r \in 0..(Scale * (MaxX + MaxY)) :
    r * r <= Scale * Scale * n /\ (r + 1) * (r + 1) > Scale * Scale * n

\* sqrtScaled, tabulated over the squared lengths of the moves on the grid.
sqrtTable ==
  [ n \in { dx * dx + dy * dy : dx \in 0..MaxX, dy \in 0..MaxY } |-> sqrtScaled(n) ]

movementDistance(newCursor, oldCursor) ==
  LET dx == newCursor.x - oldCursor.x
      dy == newCursor.y - oldCursor.y
  IN sqrtTable[dx * dx + dy * dy]

\* The refs of one hook instance, with the log of handler invocations.
Refs ==
  [ isAimingRef |-> isAimingRef, lastCursorRef |-> lastCursorRef,
    prevCursorRef |-> prevCursorRef, lastRecalcCursorRef |-> lastRecalcCursorRef,
    accumulatedMovementRef |-> accumulatedMovementRef, calls |-> << >> ]

\* setIsAiming of the render whose handler is h: the handler is called with the
\* value; the log keeps the state the call found.
setIsAiming(r, value, h) ==
  [ r EXCEPT !.isAimingRef = value,
             !.calls = IF h = NoHandler THEN @
                       ELSE Append(@, [handler |-> h, value |-> value,
                                       was |-> r.isAimingRef]) ]

\* Gates of recalc that differ from the code's: one that also holds the state at
\* an accumulated movement equal to the tolerance, one that holds every change
\* of the state, one that holds the state above the tolerance.
toleranceBlocksInclusive(r, aiming, tol) ==
  r.isAimingRef /\ ~aiming /\ r.accumulatedMovementRef <= tol * Scale

toleranceBlocksAnyChange(r, aiming, tol) ==
  r.isAimingRef # aiming /\ r.accumulatedMovementRef < tol * Scale

toleranceBlocksInverted(r, aiming, tol) ==
  r.isAimingRef /\ ~aiming /\ r.accumulatedMovementRef > tol * Scale

\* The tolerance gate of recalc: the new calculation says "not aiming" while
\* aiming, and the accumulated movement is too small.
toleranceBlocks(r, aiming, tol) ==
  r.isAimingRef /\ ~aiming /\ r.accumulatedMovementRef < tol * Scale

\* findBestIntentEdge, tabulated over the cursor samples and the rectangles.
bestIntentEdge ==
  [ c \in Points, e \in Rects \cup DegenerateRects |->
      findBestIntentEdge(c, getElementVertices(e)) ]

\* A first branch of recalc that returns without forcing the state.
forceNotAimingKeepsState(r, h) ==
  [ r EXCEPT !.lastRecalcCursorRef = Null, !.accumulatedMovementRef = 0 ]

\* The first branch of recalc: a cursor sample or the element is missing.
forceNotAiming(r, h) ==
  [ setIsAiming(r, FALSE, h) EXCEPT !.lastRecalcCursorRef = Null,
                                    !.accumulatedMovementRef = 0 ]

recalc(r, e, tol, h) ==
  LET cursor == r.lastCursorRef
      prev == r.prevCursorRef
  IN IF cursor = Null \/ prev = Null \/ e = NoEl
       THEN forceNotAiming(r, h)
     ELSE LET vertices == getElementVertices(e)
          IN IF pointInRectangle(cursor, vertices)
               THEN [ setIsAiming(r, FALSE, h) EXCEPT !.lastRecalcCursorRef = cursor,
                                                      !.accumulatedMovementRef = 0 ]
             ELSE LET edge == bestIntentEdge[cursor, e]
                  IN IF edge = << >>
                       THEN [ setIsAiming(r, FALSE, h) EXCEPT
                                !.accumulatedMovementRef = 0,
                                !.lastRecalcCursorRef = cursor ]
                     ELSE LET aiming == isMovingTowardTriangle(prev, cursor, edge[1], edge[2])
                          IN IF toleranceBlocks(r, aiming, tol) THEN r
                             ELSE setIsAiming(
                                    [ r EXCEPT !.accumulatedMovementRef = 0,
                                               !.lastRecalcCursorRef = cursor ],
                                    aiming, h)

\* The raw result of the triangle test for a move from prev to cursor.
rawAiming(prev, cursor, e) ==
  LET edge == bestIntentEdge[cursor, e]
  IN edge # << >> /\ isMovingTowardTriangle(prev, cursor, edge[1], edge[2])

\* clearTimeout(id): the pending timeout of that id, if any, is dropped.
clearTimeout(ts, id) == { t \in ts : t.id # id }

\* An onMouseMove that leaves the pending timeout in place.
clearIdleTimeoutMissing(ts, ref) == ts

\* The "Clear idle timeout" block of onMouseMove.
clearIdleTimeout(ts, ref) == IF ref # 0 THEN clearTimeout(ts, ref) ELSE ts

\* window.setTimeout returns an id no pending timeout has.
newTimerId(ts) ==
  CHOOSE i \in 1..(Cardinality(ts) + 1) :
    /\ \A t \in ts : t.id # i
    /\ \A k \in 1..(i - 1) : \E t \in ts : t.id = k

\* A timeout armed one unit too long.
idleDelayLate(d) == d + 1

\* The delay the idle timeout is armed with.
idleDelay(d) == d

\* A callback of the idle timeout that leaves the accumulated movement.
idleCallbackKeepsMovement(r, h) ==
  [ setIsAiming(r, FALSE, h) EXCEPT !.lastRecalcCursorRef = Null ]

\* The callback of the idle timeout, of the render whose handler is h.
idleCallback(r, h) ==
  [ setIsAiming(r, FALSE, h) EXCEPT !.accumulatedMovementRef = 0,
                                    !.lastRecalcCursorRef = Null ]

\* A head of onMouseMove that overwrites the accumulator with the length of the
\* move.
movedRefsOverwrites(r, newCursor) ==
  [ r EXCEPT !.prevCursorRef = r.lastCursorRef,
             !.lastCursorRef = newCursor,
             !.accumulatedMovementRef =
                IF r.lastCursorRef # Null
                  THEN movementDistance(newCursor, r.lastCursorRef) ELSE @ ]

\* The head of onMouseMove: the samples shift and the movement accumulates.
movedRefs(r, newCursor) ==
  [ r EXCEPT !.prevCursorRef = r.lastCursorRef,
             !.lastCursorRef = newCursor,
             !.accumulatedMovementRef =
                IF r.lastCursorRef # Null
                  THEN @ + movementDistance(newCursor, r.lastCursorRef) ELSE @ ]

Event(kind, acc, computed, raw, rearmed) ==
  [ kind |-> kind, was |-> isAimingRef, acc |-> acc, computed |-> computed,
    raw |-> raw, rearmed |-> rearmed ]

PlainEvent(kind) == Event(kind, 0, FALSE, FALSE, FALSE)

InitEngine ==
  /\ mounted = TRUE
  /\ isEnabled \in BOOLEAN
  /\ tolerance \in Tolerances
  /\ idleTimeout \in IdleTimeouts
  /\ handler = 1
  /\ recalcHandler = handler
  /\ effectHandler = handler
  /\ listener = isEnabled
  /\ el \in {NoEl} \cup Rects \cup DegenerateRects
  /\ isAimingRef = FALSE
  /\ lastCursorRef = Null
  /\ prevCursorRef = Null
  /\ lastRecalcCursorRef = Null
  /\ accumulatedMovementRef = 0
  /\ idleTimeoutRef = 0
  /\ timers = {}
  \* the effect of a hook mounted disabled has called setIsAiming(false)
  /\ calls = IF isEnabled THEN << >>
             ELSE << [handler |-> handler, value |-> FALSE, was |-> FALSE] >>
  /\ ev = [ kind |-> "mount", was |-> FALSE, acc |-> 0, computed |-> FALSE,
            raw |-> FALSE, rearmed |-> FALSE ]
  /\ lastMove = Null

Init ==
  /\ InitEngine
  /\ el \in {NoEl} \cup Rects
  /\ other = Null
  /\ geo = Null
  /\ menu = Null
  /\ hook = Null

StoreRefs(r) ==
  /\ isAimingRef' = r.isAimingRef
  /\ lastCursorRef' = r.lastCursorRef
  /\ prevCursorRef' = r.prevCursorRef
  /\ lastRecalcCursorRef' = r.lastRecalcCursorRef
  /\ accumulatedMovementRef' = r.accumulatedMovementRef
  /\ calls' = r.calls

\* A mousemove event reaches the document and the listener is attached.
OnMouseMove(newCursor) ==
  /\ listener
  /\ LET oldCursor == lastCursorRef
         moved == movedRefs(Refs, newCursor)
         cleared == clearIdleTimeout(timers, idleTimeoutRef)
         r == recalc(moved, el, tolerance, recalcHandler)
         id == newTimerId(cleared)
         computed == oldCursor # Null /\ el # NoEl
                     /\ ~pointInRectangle(newCursor, getElementVertices(el))
     IN /\ StoreRefs(r)
        /\ idleTimeoutRef' = id
        /\ timers' = cleared \cup { [ id |-> id, left |-> idleDelay(idleTimeout),
                                      handler |-> effectHandler ] }
        /\ ev' = Event("move", moved.accumulatedMovementRef, computed,
                       computed /\ rawAiming(oldCursor, newCursor, el),
                       cleared # timers)
        /\ lastMove' = [ aimed |-> r.isAimingRef, idle |-> idleTimeout, t |-> 0,
                         fired |-> FALSE ]
  /\ UNCHANGED << mounted, isEnabled, tolerance, idleTimeout, handler, recalcHandler,
                  effectHandler, listener, el >>

\* A mousemove event reaches the document and no listener is attached.
IgnoredMouseMove ==
  /\ ~listener
  /\ ev.kind # "ignored"
  /\ ev' = PlainEvent("ignored")
  /\ calls' = << >>
  /\ UNCHANGED << mounted, isEnabled, tolerance, idleTimeout, handler, recalcHandler,
                  effectHandler, listener, el, isAimingRef, lastCursorRef,
                  prevCursorRef, lastRecalcCursorRef, accumulatedMovementRef,
                  idleTimeoutRef, timers, lastMove >>

\* The callback of the idle timeout runs.
IdleTimeoutFires ==
  \E t \in timers :
    /\ t.left = 0
    /\ StoreRefs(idleCallback(Refs, t.handler))
    /\ timers' = timers \ {t}
    /\ ev' = PlainEvent("idle")
    /\ lastMove' = IF lastMove = Null THEN Null ELSE [ lastMove EXCEPT !.fired = TRUE ]
    /\ UNCHANGED << mounted, isEnabled, tolerance, idleTimeout, handler, recalcHandler,
                    effectHandler, listener, el, idleTimeoutRef >>

\* One unit of time passes; a timeout that is due runs before time goes on.
Tick ==
  /\ \A t \in timers : t.left > 0
  /\ timers # {} \/ (lastMove # Null /\ lastMove.t <= MaxIdleTimeout)
  /\ timers' = { [ t EXCEPT !.left = @ - 1 ] : t \in timers }
  /\ lastMove' = IF lastMove = Null THEN Null
                 ELSE [ lastMove EXCEPT !.t = Min2(@ + 1, MaxIdleTimeout + 1) ]
  /\ ev' = PlainEvent("tick")
  /\ calls' = << >>
  /\ UNCHANGED << mounted, isEnabled, tolerance, idleTimeout, handler, recalcHandler,
                  effectHandler, listener, el, isAimingRef, lastCursorRef,
                  prevCursorRef, lastRecalcCursorRef, accumulatedMovementRef,
                  idleTimeoutRef >>

\* The host attaches the ref to an element, moves or resizes the element, or
\* detaches the ref (ref.current = null).
SetRef(e) ==
  /\ mounted
  /\ e # el
  /\ el' = e
  /\ ev' = PlainEvent("ref")
  /\ calls' = << >>
  /\ UNCHANGED << mounted, isEnabled, tolerance, idleTimeout, handler, recalcHandler,
                  effectHandler, listener, isAimingRef, lastCursorRef, prevCursorRef,
                  lastRecalcCursorRef, accumulatedMovementRef, idleTimeoutRef, timers,
                  lastMove >>

\* The cleanup the effect returned when it ran enabled.
effectCleanup(ts, ref) == IF ref # 0 THEN clearTimeout(ts, ref) ELSE ts

\* A disabled branch of the effect that forgets to clear the cursor samples.
disabledEffectKeepsSamples(r, h) ==
  [ setIsAiming(r, FALSE, h) EXCEPT !.lastRecalcCursorRef = Null ]

\* The body of the effect when isEnabled is false.
disabledEffect(r, h) ==
  [ setIsAiming(r, FALSE, h) EXCEPT !.lastCursorRef = Null,
                                    !.prevCursorRef = Null,
                                    !.lastRecalcCursorRef = Null,
                                    !.accumulatedMovementRef = 0 ]

\* The host renders the hook with the options (b, tol, d, h). recalc is memoized
\* on [tolerance]; the effect runs again when isEnabled, recalc or idleTimeout
\* changed: the cleanup of its last run, then its body.
Render(b, tol, d, h) ==
  /\ mounted
  /\ << b, tol, d, h >> # << isEnabled, tolerance, idleTimeout, handler >>
  /\ LET recalcChanged == tol # tolerance
         depsChanged == b # isEnabled \/ recalcChanged \/ d # idleTimeout
     IN /\ isEnabled' = b
        /\ tolerance' = tol
        /\ idleTimeout' = d
        /\ handler' = h
        /\ recalcHandler' = IF recalcChanged THEN h ELSE recalcHandler
        /\ effectHandler' = IF depsChanged THEN h ELSE effectHandler
        /\ listener' = IF depsChanged THEN b ELSE listener
        /\ timers' = IF depsChanged /\ isEnabled
                       THEN effectCleanup(timers, idleTimeoutRef) ELSE timers
        /\ StoreRefs(IF depsChanged /\ ~b THEN disabledEffect(Refs, h) ELSE Refs)
        /\ ev' = PlainEvent(IF b = isEnabled THEN "render"
                            ELSE IF b THEN "enable" ELSE "disable")
        /\ lastMove' = IF depsChanged THEN Null ELSE lastMove
  /\ UNCHANGED << mounted, el, idleTimeoutRef >>

\* The host flips isEnabled and leaves the other options as they are.
SetEnabled(b) == Render(b, tolerance, idleTimeout, handler)

\* The host unmounts the component: the cleanup of the effect, if it ran enabled;
\* the ref is detached.
Unmount ==
  /\ mounted
  /\ mounted' = FALSE
  /\ listener' = FALSE
  /\ timers' = IF isEnabled THEN effectCleanup(timers, idleTimeoutRef) ELSE timers
  /\ el' = NoEl
  /\ ev' = PlainEvent("unmount")
  /\ calls' = << >>
  /\ lastMove' = Null
  /\ UNCHANGED << isEnabled, tolerance, idleTimeout, handler, recalcHandler,
                  effectHandler, isAimingRef, lastCursorRef, prevCursorRef,
                  lastRecalcCursorRef, accumulatedMovementRef, idleTimeoutRef >>

Next ==
  \/ \E p \in Points : OnMouseMove(p) /\ UNCHANGED aux
  \/ IgnoredMouseMove /\ UNCHANGED aux
  \/ IdleTimeoutFires /\ UNCHANGED aux
  \/ Tick /\ UNCHANGED aux
  \/ \E e \in {NoEl} \cup Rects : SetRef(e) /\ UNCHANGED aux
  \/ \E b \in BOOLEAN : SetEnabled(b) /\ UNCHANGED aux
  \/ Unmount /\ UNCHANGED aux

Spec == Init /\ [][Next]_vars

\* The same engine under a host that also re-renders with other options.
NextProps ==
  \/ \E p \in PropsPoints : OnMouseMove(p) /\ UNCHANGED aux
  \/ IgnoredMouseMove /\ UNCHANGED aux
  \/ IdleTimeoutFires /\ UNCHANGED aux
  \/ Tick /\ UNCHANGED aux
  \/ \E e \in {NoEl} \cup Rects : SetRef(e) /\ UNCHANGED aux
  \/ \E b \in BOOLEAN, tol \in Tolerances, d \in IdleTimeouts, h \in Handlers :
       Render(b, tol, d, h) /\ UNCHANGED aux
  \/ Unmount /\ UNCHANGED aux

SpecProps == Init /\ [][NextProps]_vars

(***************************************************************************)
(* Two instances of the engine in lockstep: the same moves, timeouts and   *)
(* target rectangles, the tolerance of the second at least that of the     *)
(* first.                                                                  *)
(***************************************************************************)
InitMono ==
  /\ InitEngine
  /\ isEnabled
  /\ idleTimeout = 1
  /\ el \in {NoEl} \cup Rects
  /\ other \in { [ isAimingRef |-> FALSE, lastCursorRef |-> Null, prevCursorRef |-> Null,
                   lastRecalcCursorRef |-> Null, accumulatedMovementRef |-> 0,
                   calls |-> << >>, tolerance |-> t2 ] :
                 t2 \in { t \in Tolerances : t >= tolerance } }
  /\ geo = Null
  /\ menu = Null
  /\ hook = Null

NextMono ==
  \/ \E p \in Points :
       /\ OnMouseMove(p)
       /\ other' = recalc(movedRefs(other, p), el, other.tolerance, NoHandler)
       /\ UNCHANGED << geo, menu, hook >>
  \/ /\ IdleTimeoutFires
     /\ other' = idleCallback(other, NoHandler)
     /\ UNCHANGED << geo, menu, hook >>
  \/ Tick /\ UNCHANGED aux
  \/ \E e \in {NoEl} \cup Rects : SetRef(e) /\ UNCHANGED aux

SpecMono == InitMono /\ [][NextMono]_vars

(***************************************************************************)
(* The engine with a target element whose bounding rectangle has no area.  *)
(***************************************************************************)
InitDegenerate ==
  /\ InitEngine
  /\ isEnabled
  /\ tolerance = MaxTolerance
  /\ idleTimeout = 1
  /\ el \in DegenerateRects
  /\ other = Null
  /\ geo = Null
  /\ menu = Null
  /\ hook = Null

NextDegenerate ==
  \/ \E p \in Points : OnMouseMove(p) /\ UNCHANGED aux
  \/ IdleTimeoutFires /\ UNCHANGED aux
  \/ Tick /\ UNCHANGED aux
  \/ \E e \in DegenerateRects : SetRef(e) /\ UNCHANGED aux

SpecDegenerate == InitDegenerate /\ [][NextDegenerate]_vars

(***************************************************************************)
(* The geometry kernel on its own: a cursor and a rectangle are drawn, then *)
(* findBestIntentEdge or the clipping of the triangle of one vertex pair   *)
(* is evaluated.                                                           *)
(***************************************************************************)
GeoPoints == { Pt(px, py) : px \in 0..GeoMax, py \in 0..GeoMax }

\* The rectangles of the grid that leave a margin around them, those of zero
\* width or height included.
GeoRects ==
  { e \in [ left : 1..(GeoMax - 1), top : 1..(GeoMax - 1),
            right : 1..(GeoMax - 1), bottom : 1..(GeoMax - 1) ] :
      e.left <= e.right /\ e.top <= e.bottom }

\* The engine at rest while the kernel is evaluated.
InitQuiet ==
  /\ InitEngine
  /\ isEnabled
  /\ tolerance = MaxTolerance
  /\ idleTimeout = MaxIdleTimeout
  /\ el = NoEl
  /\ other = Null

InitGeo ==
  /\ InitQuiet
  /\ menu = Null
  /\ hook = Null
  /\ geo \in { [op |-> "input", cursor |-> c, rect |-> e, pair |-> 0, edge |-> << >>,
               polygon |-> << >>, K |-> 1, triangleAreaValue |-> 0,
               overlapArea |-> 0] : c \in GeoPoints, e \in GeoRects }

\* findBestIntentEdge(cursor, vertices)
FindBestIntentEdge ==
  /\ geo.op = "input"
  /\ geo' = [ geo EXCEPT !.op = "findBestIntentEdge",
                         !.edge = findBestIntentEdge(geo.cursor,
                                                     getElementVertices(geo.rect)) ]
  /\ UNCHANGED << engineVars, other, menu, hook >>

\* The body of the loop of findBestIntentEdge for the pair of index i:
\* triangleArea and triangleRectangleOverlapArea of the triangle (cursor, a, b).
\* The areas are kept as 2*K*K times their values.
ClipTriangle(i) ==
  /\ geo.op = "input"
  /\ LET vertices == getElementVertices(geo.rect)
         a == vertices[pairs[i][1]]
         b == vertices[pairs[i][2]]
         K == lcmOfDistances(geo.cursor, vertices, 1)
     IN geo' = [ geo EXCEPT
                   !.op = "clipTriangleByRectangle",
                   !.pair = i,
                   !.K = K,
                   !.polygon = clipTriangleByRectangle(<< geo.cursor, a, b >>, vertices, K),
                   !.triangleAreaValue = K * K * triangleArea(geo.cursor, a, b),
                   !.overlapArea =
                      triangleRectangleOverlapArea(geo.cursor, a, b, vertices, K) ]
  /\ UNCHANGED << engineVars, other, menu, hook >>

NextGeo ==
  \/ FindBestIntentEdge
  \/ \E i \in 1..Len(pairs) : ClipTriangle(i)

SpecGeo == InitGeo /\ [][NextGeo]_vars

(***************************************************************************)
(* The directional engine: useMenuAim. The state of the instance is the    *)
(* record menu: the options of the latest render, contentRef.current (el), *)
(* the refs, the pending timeouts [id, left], the handler invocations of   *)
(* the latest step (calls) and what that step was (ev).                    *)
(***************************************************************************)
Directions == { "left", "right", "top", "bottom" }

MenuPoints == { Pt(px, py) : px \in 0..MenuMax, py \in 0..MenuMax }

\* The pointer of the protocol specification moves along the diagonal of the grid:
\* from either end it heads for the submenu in every direction, and it crosses the
\* submenu.
MenuPath == { Pt(i, i) : i \in 0..MenuMax }

\* The bounding rectangle of the submenu (page coordinates), and that of a submenu
\* without height.
MenuRect == [left |-> 1, top |-> 1, right |-> 3, bottom |-> 3]

FlatMenuRect == [left |-> 1, top |-> 2, right |-> 3, bottom |-> 2]

MenuRects == { MenuRect, FlatMenuRect }

MenuTolerances == 0..MaxMenuTolerance

sign(p1, p2, p3) == (p1.x - p3.x) * (p2.y - p3.y) - (p2.x - p3.x) * (p1.y - p3.y)

menuPointInTriangle(p, a, b, c) ==
  LET d1 == sign(p, a, b)
      d2 == sign(p, b, c)
      d3 == sign(p, c, a)
      hasNeg == d1 < 0 \/ d2 < 0 \/ d3 < 0
      hasPos == d1 > 0 \/ d2 > 0 \/ d3 > 0
  IN ~(hasNeg /\ hasPos)

getMenuDirectionVector(direction) ==
  CASE direction = "left" -> Pt(-1, 0)
    [] direction = "right" -> Pt(1, 0)
    [] direction = "top" -> Pt(0, -1)
    [] direction = "bottom" -> Pt(0, 1)
    [] OTHER -> Pt(0, 0)

\* An isAiming that also accepts a move across the direction.
isAimingOrAcross(prev, current, dir) ==
  (current.x - prev.x) * dir.x + (current.y - prev.y) * dir.y >= 0

isAiming(prev, current, dir) ==
  LET dx == current.x - prev.x
      dy == current.y - prev.y
  IN dx * dir.x + dy * dir.y > 0

getContentEdge(elem, direction, tol) ==
  CASE direction = "right" ->
         << Pt(elem.left, elem.top - tol), Pt(elem.left, elem.bottom + tol) >>
    [] direction = "left" ->
         << Pt(elem.right, elem.top - tol), Pt(elem.right, elem.bottom + tol) >>
    [] direction = "bottom" ->
         << Pt(elem.left - tol, elem.top), Pt(elem.right + tol, elem.top) >>
    [] direction = "top" ->
         << Pt(elem.left - tol, elem.bottom), Pt(elem.right + tol, elem.bottom) >>
    [] OTHER -> << Pt(0, 0), Pt(0, 0) >>

\* setIsAiming of useMenuAim: the handler is called with the value; the log keeps
\* the state the call found.
menuSetIsAiming(m, value) ==
  [ m EXCEPT !.isAimingRef = value,
             !.calls = Append(@, [value |-> value, was |-> m.isAimingRef]) ]

\* recalc of useMenuAim.
menuRecalc(m) ==
  LET cursor == m.lastCursorRef
      prev == m.prevCursorRef
  IN IF cursor = Null \/ prev = Null \/ m.el = NoEl
       THEN menuSetIsAiming(m, FALSE)
     ELSE LET edge == getContentEdge(m.el, m.direction, m.tolerance)
              inTriangle == menuPointInTriangle(cursor, prev, edge[1], edge[2])
          IN IF ~inTriangle THEN menuSetIsAiming(m, FALSE)
             ELSE menuSetIsAiming(m,
                    isAiming(prev, cursor, getMenuDirectionVector(m.direction)))

\* The start of a step: the log of the latest step is dropped, the step is named.
menuStep(m, kind) ==
  [ m EXCEPT !.calls = << >>, !.ev = [kind |-> kind, was |-> m.isAimingRef] ]

\* The cleanup of the effect of useMenuAim.
menuEffectCleanup(m) ==
  [ m EXCEPT !.listener = FALSE,
             !.timers = IF m.timeoutRef # 0 THEN clearTimeout(@, m.timeoutRef) ELSE @ ]

\* The body of the effect of useMenuAim.
menuEffect(m) ==
  IF ~m.isEnabled
    THEN [ menuSetIsAiming(m, FALSE) EXCEPT !.lastCursorRef = Null,
                                            !.prevCursorRef = Null ]
  ELSE [ m EXCEPT !.listener = TRUE ]

InitMenu ==
  /\ InitQuiet
  /\ geo = Null
  /\ hook = Null
  /\ menu \in { menuEffect([ mounted |-> TRUE, isEnabled |-> b, direction |-> d,
                            tolerance |-> tol, el |-> e, listener |-> FALSE,
                            isAimingRef |-> FALSE, lastCursorRef |-> Null,
                            prevCursorRef |-> Null, timeoutRef |-> 0, timers |-> {},
                            calls |-> << >>,
                            ev |-> [kind |-> "mount", was |-> FALSE] ]) :
                b \in BOOLEAN, d \in Directions, tol \in MenuTolerances,
                e \in {NoEl, MenuRect} }

\* The body of handleMouseMove.
menuMoved(m, newCursor) ==
  LET m1 == [ menuStep(m, "move") EXCEPT !.prevCursorRef = m.lastCursorRef,
                                         !.lastCursorRef = newCursor ]
      m2 == menuRecalc(m1)
      cleared == IF m2.timeoutRef # 0 THEN clearTimeout(m2.timers, m2.timeoutRef)
                 ELSE m2.timers
      id == newTimerId(cleared)
  IN [ m2 EXCEPT !.timeoutRef = id,
                 !.timers = cleared \cup { [id |-> id, left |-> RECALC_DELAY] } ]

\* handleMouseMove: a mousemove event reaches the document, the listener attached.
handleMouseMove(newCursor) ==
  /\ menu.listener
  /\ menu' = menuMoved(menu, newCursor)
  /\ UNCHANGED << engineVars, other, geo, hook >>

\* A mousemove event reaches the document and no listener is attached.
MenuIgnoredMouseMove ==
  /\ ~menu.listener
  /\ menu.ev.kind # "ignored"
  /\ menu' = menuStep(menu, "ignored")
  /\ UNCHANGED << engineVars, other, geo, hook >>

\* The timeout of the latest move runs: recalc.
MenuRecalcTimeout ==
  /\ \E t \in menu.timers :
       /\ t.left = 0
       /\ menu' = menuRecalc([ menuStep(menu, "recheck") EXCEPT !.timers = @ \ {t} ])
  /\ UNCHANGED << engineVars, other, geo, hook >>

\* Half of RECALC_DELAY passes; a timeout that is due runs before time goes on.
MenuTick ==
  /\ menu.timers # {}
  /\ \A t \in menu.timers : t.left > 0
  /\ menu' = [ menuStep(menu, "tick") EXCEPT
                 !.timers = { [ t EXCEPT !.left = Max2(0, @ - RECALC_DELAY \div 2) ] :
                              t \in menu.timers } ]
  /\ UNCHANGED << engineVars, other, geo, hook >>

\* The host attaches contentRef to an element or detaches it.
MenuSetRef(e) ==
  /\ menu.mounted
  /\ e # menu.el
  /\ menu' = [ menuStep(menu, "ref") EXCEPT !.el = e ]
  /\ UNCHANGED << engineVars, other, geo, hook >>

\* The host renders the hook with isEnabled = b. setIsAiming is a new function in
\* every render and a dependency of recalc and of the effect: the effect runs
\* again in every render, the cleanup of its last run first.
MenuRender(b) ==
  /\ menu.mounted
  /\ LET m1 == menuStep(menu, IF b = menu.isEnabled THEN "render"
                              ELSE IF b THEN "enable" ELSE "disable")
         m2 == IF menu.isEnabled THEN menuEffectCleanup(m1) ELSE m1
     IN menu' = menuEffect([ m2 EXCEPT !.isEnabled = b ])
  /\ UNCHANGED << engineVars, other, geo, hook >>

\* The host unmounts the component.
MenuUnmount ==
  /\ menu.mounted
  /\ LET m1 == menuStep(menu, "unmount")
         m2 == IF menu.isEnabled THEN menuEffectCleanup(m1) ELSE m1
     IN menu' = [ m2 EXCEPT !.mounted = FALSE, !.el = NoEl ]
  /\ UNCHANGED << engineVars, other, geo, hook >>

\* The host calls reset of the object the hook returned. The object is
\* { isAiming, switchDelay, contentRef }: reset is undefined, the call throws a
\* TypeError and no ref changes.
MenuReset ==
  /\ menu.mounted
  /\ menu.ev.kind # "reset"
  /\ menu' = menuStep(menu, "reset")
  /\ UNCHANGED << engineVars, other, geo, hook >>

NextMenu ==
  \/ \E p \in MenuPath : handleMouseMove(p)
  \/ MenuIgnoredMouseMove
  \/ MenuRecalcTimeout
  \/ MenuTick
  \/ \E e \in {NoEl, MenuRect} : MenuSetRef(e)
  \/ \E b \in BOOLEAN : MenuRender(b)
  \/ MenuUnmount
  \/ MenuReset

SpecMenu == InitMenu /\ [][NextMenu]_vars

\* The decision of useMenuAim on its own: an enabled instance with a submenu
\* attached has seen its first move; the pointer then moves over the whole grid.
InitMenuAim ==
  /\ InitQuiet
  /\ geo = Null
  /\ hook = Null
  /\ menu \in { menuMoved(menuEffect([ mounted |-> TRUE, isEnabled |-> TRUE,
                            direction |-> d, tolerance |-> tol, el |-> e,
                            listener |-> FALSE, isAimingRef |-> FALSE,
                            lastCursorRef |-> Null, prevCursorRef |-> Null,
                            timeoutRef |-> 0, timers |-> {}, calls |-> << >>,
                            ev |-> [kind |-> "mount", was |-> FALSE] ]), q) :
                d \in Directions, tol \in MenuTolerances, e \in MenuRects,
                q \in MenuPoints }

NextMenuAim == \E p \in MenuPoints : handleMouseMove(p)

SpecMenuAim == InitMenuAim /\ [][NextMenuAim]_vars

(***************************************************************************)
(* pointInTriangle on its own, both the one of useIsAiming and the one of  *)
(* useMenuAim: the result for the corners in the order given, for its two  *)
(* cyclic permutations and for the opposite orientation.                   *)
(***************************************************************************)
TriPoints == { Pt(px, py) : px \in 0..TriMax, py \in 0..TriMax }

InitTri ==
  /\ InitQuiet
  /\ menu = Null
  /\ hook = Null
  /\ geo \in { [op |-> "input", p |-> p, a |-> a, b |-> b, c |-> c, results |-> << >>] :
               p \in TriPoints, a \in TriPoints, b \in TriPoints, c \in TriPoints }

PointInTriangle ==
  /\ geo.op = "input"
  /\ geo' = [ geo EXCEPT !.op = "pointInTriangle",
                         !.results = << pointInTriangle(geo.p, geo.a, geo.b, geo.c),
                                        pointInTriangle(geo.p, geo.b, geo.c, geo.a),
                                        pointInTriangle(geo.p, geo.c, geo.a, geo.b),
                                        pointInTriangle(geo.p, geo.a, geo.c, geo.b) >> ]
  /\ UNCHANGED << engineVars, other, menu, hook >>

MenuPointInTriangle ==
  /\ geo.op = "input"
  /\ geo' = [ geo EXCEPT !.op = "menuPointInTriangle",
                         !.results = << menuPointInTriangle(geo.p, geo.a, geo.b, geo.c),
                                        menuPointInTriangle(geo.p, geo.b, geo.c, geo.a),
                                        menuPointInTriangle(geo.p, geo.c, geo.a, geo.b),
                                        menuPointInTriangle(geo.p, geo.a, geo.c, geo.b) >> ]
  /\ UNCHANGED << engineVars, other, menu, hook >>

NextTri == PointInTriangle \/ MenuPointInTriangle

SpecTri == InitTri /\ [][NextTri]_vars

(***************************************************************************)
(* useOnOutsideClick and useOnOutsideMouseMove. The components of a run all *)
(* use the same of the two hooks (kind). hook holds the components (inst), *)
(* the two module-level registries (clickConfigs, moveConfigs: the *)
(* keys in insertion order, each with its group), the pending setTimeout   *)
(* callbacks of useOnOutsideClick in the order they were set (timers), the *)
(* latest event (ev) and the handlers it invoked (invoked).                *)
(* The nodes of the document: 0 is the body, i the element of component i, *)
(* MaxInstances + 1 a child of the element of component 1.                 *)
(***************************************************************************)
Inst == 1..MaxInstances

Nodes == 0..(MaxInstances + 1)

Contexts == { "global", "menu" }

HookKinds == { "click", "mousemove" }

NoOption == [id |-> 0, inst |-> 0, handler |-> 0]

\* domElement.contains(event.target) for the element of component e.
contains(e, tgt) == tgt = e \/ (e = 1 /\ tgt = MaxInstances + 1)

reject(array, predicate) == SelectSeq(array, LAMBDA item : item # predicate)

\* if (!configs[context]) configs[context] = []
ensureContext(cfgs, cx) ==
  IF \E k \in DOMAIN cfgs : cfgs[k].context = cx THEN cfgs
  ELSE Append(cfgs, [context |-> cx, group |-> << >>])

\* configs[context]?.push(option)
pushOption(cfgs, cx, o) ==
  [ k \in DOMAIN cfgs |-> IF cfgs[k].context = cx
                            THEN [ cfgs[k] EXCEPT !.group = Append(@, o) ]
                          ELSE cfgs[k] ]

\* configs[context] = reject(configs[context], option)
rejectOption(cfgs, cx, o) ==
  [ k \in DOMAIN cfgs |-> IF cfgs[k].context = cx
                            THEN [ cfgs[k] EXCEPT !.group = reject(@, o) ]
                          ELSE cfgs[k] ]

\* An inner loop of handleOutsideClick that goes on after a handler.
RECURSIVE clickGroupNoBreak(_, _, _, _)
clickGroupNoBreak(group, insts, tgt, i) ==
  IF i < 1 THEN << >>
  ELSE IF ~insts[group[i].inst].ref THEN clickGroupNoBreak(group, insts, tgt, i - 1)
  ELSE IF contains(group[i].inst, tgt) THEN << >>
  ELSE << group[i] >> \o clickGroupNoBreak(group, insts, tgt, i - 1)

\* The inner loop of handleOutsideClick from index i down: the entries it invokes.
RECURSIVE clickGroup(_, _, _, _)
clickGroup(group, insts, tgt, i) ==
  IF i < 1 THEN << >>
  ELSE IF ~insts[group[i].inst].ref THEN clickGroup(group, insts, tgt, i - 1)
  ELSE IF contains(group[i].inst, tgt) THEN << >>
  ELSE << group[i] >>

\* A handleOutsideClick whose break leaves the loop over the contexts too.
RECURSIVE handleOutsideClickBreaksAll(_, _, _, _)
handleOutsideClickBreaksAll(cfgs, insts, tgt, k) ==
  IF k > Len(cfgs) THEN << >>
  ELSE LET g == cfgs[k].group
           called == [ j \in DOMAIN clickGroup(g, insts, tgt, Len(g)) |->
                         [context |-> cfgs[k].context,
                          option |-> clickGroup(g, insts, tgt, Len(g))[j]] ]
       IN IF \E j \in DOMAIN g : insts[g[j].inst].ref THEN called
          ELSE called \o handleOutsideClickBreaksAll(cfgs, insts, tgt, k + 1)

\* handleOutsideClick from the k-th key of configs on: the handlers it invokes, in
\* order, each with the context of its group.
RECURSIVE handleOutsideClick(_, _, _, _)
handleOutsideClick(cfgs, insts, tgt, k) ==
  IF k > Len(cfgs) THEN << >>
  ELSE LET g == cfgs[k].group
           called == clickGroup(g, insts, tgt, Len(g))
       IN [ j \in DOMAIN called |-> [context |-> cfgs[k].context, option |-> called[j]] ]
            \o handleOutsideClick(cfgs, insts, tgt, k + 1)

\* The inner loop of handleOutsideMouseMove from index i down.
RECURSIVE moveGroup(_, _, _, _)
moveGroup(group, insts, tgt, i) ==
  IF i < 1 THEN << >>
  ELSE IF ~insts[group[i].inst].ref THEN moveGroup(group, insts, tgt, i - 1)
  ELSE IF ~contains(group[i].inst, tgt)
         THEN << group[i] >> \o moveGroup(group, insts, tgt, i - 1)
  ELSE moveGroup(group, insts, tgt, i - 1)

RECURSIVE handleOutsideMouseMove(_, _, _, _)
handleOutsideMouseMove(cfgs, insts, tgt, k) ==
  IF k > Len(cfgs) THEN << >>
  ELSE LET g == cfgs[k].group
           called == moveGroup(g, insts, tgt, Len(g))
       IN [ j \in DOMAIN called |-> [context |-> cfgs[k].context, option |-> called[j]] ]
            \o handleOutsideMouseMove(cfgs, insts, tgt, k + 1)

\* The start of a step: the log of the latest event is dropped.
outsideStep(h, kind, tgt) ==
  [ h EXCEPT !.ev = [kind |-> kind, target |-> tgt], !.invoked = << >> ]

\* An effect of useOnOutsideClick that registers the option at once, without
\* waiting for its timeout.
clickEffectAtOnce(h, i) ==
  LET o == [id |-> h.nextId, inst |-> i, handler |-> h.inst[i].handler]
      cx == h.inst[i].context
  IN [ h EXCEPT !.clickConfigs = pushOption(ensureContext(@, cx), cx, o),
                !.timers = Append(@, [context |-> cx, option |-> o]),
                !.nextId = @ + 1,
                !.inst[i].option = o ]

\* The effect of useOnOutsideClick for component i: the registration is deferred
\* to a timeout.
clickEffect(h, i) ==
  LET o == [id |-> h.nextId, inst |-> i, handler |-> h.inst[i].handler]
      cx == h.inst[i].context
  IN [ h EXCEPT !.clickConfigs = ensureContext(@, cx),
                !.timers = Append(@, [context |-> cx, option |-> o]),
                !.nextId = @ + 1,
                !.inst[i].option = o ]

\* The cleanup of the effect of useOnOutsideClick.
clickCleanup(h, i) ==
  [ h EXCEPT !.clickConfigs = rejectOption(@, h.inst[i].context, h.inst[i].option) ]

\* The effect of useOnOutsideMouseMove for component i.
moveEffect(h, i) ==
  LET o == [id |-> h.nextId, inst |-> i, handler |-> h.inst[i].handler]
      cx == h.inst[i].context
  IN [ h EXCEPT !.moveConfigs = pushOption(ensureContext(@, cx), cx, o),
                !.nextId = @ + 1,
                !.inst[i].option = o ]

\* A cleanup of the effect of useOnOutsideMouseMove that leaves the group alone.
moveCleanupMissing(h, i) == h

\* The cleanup of the effect of useOnOutsideMouseMove.
moveCleanup(h, i) ==
  [ h EXCEPT !.moveConfigs = rejectOption(@, h.inst[i].context, h.inst[i].option) ]

hookEffect(h, i) ==
  IF h.kind = "click" THEN clickEffect(h, i) ELSE moveEffect(h, i)

hookCleanup(h, i) ==
  IF h.kind = "click" THEN clickCleanup(h, i) ELSE moveCleanup(h, i)

InitOutside ==
  /\ InitQuiet
  /\ geo = Null
  /\ menu = Null
  /\ hook \in { [ kind |-> kind,
                  inst |-> [ i \in Inst |-> [status |-> "new", context |-> "global",
                                             handler |-> 0, ref |-> FALSE,
                                             option |-> NoOption] ],
                  clickConfigs |-> << >>, moveConfigs |-> << >>, timers |-> << >>,
                  nextId |-> 1, ev |-> [kind |-> "step", target |-> 0],
                  invoked |-> << >> ] : kind \in HookKinds }

\* Component i mounts: first render and effect. The components mount in the order
\* of their numbers.
OutsideMount(i, cx, attached) ==
  /\ hook.inst[i].status = "new"
  /\ \A j \in Inst : j < i => hook.inst[j].status # "new"
  /\ hook.nextId <= MaxEffects
  /\ hook' = hookEffect([ outsideStep(hook, "step", 0) EXCEPT
                            !.inst[i] = [status |-> "mounted", context |-> cx, handler |-> hook.nextId,
                                         ref |-> attached, option |-> NoOption] ], i)
  /\ UNCHANGED << engineVars, other, geo, menu >>

\* Component i renders again with a new handler function: handler is a
\* dependency of the effect, the cleanup of its last run runs, then the effect.
\* The handler functions are numbered as the runs of the effect are.
OutsideRender(i) ==
  /\ hook.inst[i].status = "mounted"
  /\ hook.nextId <= MaxEffects
  /\ hook' = hookEffect([ hookCleanup(outsideStep(hook, "step", 0), i) EXCEPT
                            !.inst[i].handler = hook.nextId ], i)
  /\ UNCHANGED << engineVars, other, geo, menu >>

\* Component i unmounts: the cleanup of the last run of the effect. The ref object
\* keeps its element unless its owner clears it (OutsideSetRef).
OutsideUnmount(i) ==
  /\ hook.inst[i].status = "mounted"
  /\ hook' = [ hookCleanup(outsideStep(hook, "step", 0), i) EXCEPT
                 !.inst[i].status = "unmounted" ]
  /\ UNCHANGED << engineVars, other, geo, menu >>

\* ref.current of component i is set to its element or to null.
OutsideSetRef(i, attached) ==
  /\ hook.inst[i].status # "new"
  /\ attached # hook.inst[i].ref
  /\ hook' = [ outsideStep(hook, "step", 0) EXCEPT !.inst[i].ref = attached ]
  /\ UNCHANGED << engineVars, other, geo, menu >>

\* The oldest pending timeout of useOnOutsideClick runs: configs[context]?.push(option).
RegistrationTimeout ==
  /\ hook.timers # << >>
  /\ LET t == Head(hook.timers)
     IN hook' = [ outsideStep(hook, "step", 0) EXCEPT
                    !.timers = Tail(@),
                    !.clickConfigs = pushOption(@, t.context, t.option) ]
  /\ UNCHANGED << engineVars, other, geo, menu >>

\* A click on node tgt reaches the document.
DocumentClick(tgt) ==
  /\ hook.kind = "click"
  /\ hook' = [ outsideStep(hook, "click", tgt) EXCEPT
                 !.invoked = handleOutsideClick(hook.clickConfigs, hook.inst, tgt, 1) ]
  /\ UNCHANGED << engineVars, other, geo, menu >>

\* A mousemove over node tgt reaches the document.
DocumentMouseMove(tgt) ==
  /\ hook.kind = "mousemove"
  /\ hook' = [ outsideStep(hook, "mousemove", tgt) EXCEPT
                 !.invoked = handleOutsideMouseMove(hook.moveConfigs, hook.inst, tgt, 1) ]
  /\ UNCHANGED << engineVars, other, geo, menu >>

NextOutside ==
  \/ \E i \in Inst, cx \in Contexts, attached \in BOOLEAN : OutsideMount(i, cx, attached)
  \/ \E i \in Inst : OutsideRender(i)
  \/ \E i \in Inst : OutsideUnmount(i)
  \/ \E i \in Inst, attached \in BOOLEAN : OutsideSetRef(i, attached)
  \/ RegistrationTimeout
  \/ \E tgt \in Nodes : DocumentClick(tgt)
  \/ \E tgt \in Nodes : DocumentMouseMove(tgt)

SpecOutside == InitOutside /\ [][NextOutside]_vars

(***************************************************************************)
(* useKeyboardListNavigation. hook holds the options of the latest render  *)
(* (itemsLength, isOpened, hoveredIndex), the state currentHoveredIndex,   *)
(* listRef.current (list: NoList for a null ref, else the number of li     *)
(* children of the list), the callbacks the latest step invoked (calls)    *)
(* and what the step was (ev).                                             *)
(***************************************************************************)
NoList == -1

KeyCodes == { "ArrowUp", "ArrowDown", "Escape", "Enter", "Space", "Tab" }

ItemsLengths == 0..MaxItems

HoveredIndexes == (-1)..MaxItems

Lists == { NoList } \cup ItemsLengths

navCall(nv, fn, arg) == [ nv EXCEPT !.calls = Append(@, [fn |-> fn, arg |-> arg]) ]

updateHoveredIndex(nv, index) ==
  navCall([ nv EXCEPT !.currentHoveredIndex = index ], "onHoveredIndexChange", index)

\* updateListPosition: nothing happens without the list element or without its
\* li:nth-child(newIndex + 1).
updateListPosition(nv, newIndex) ==
  IF nv.list = NoList THEN nv
  ELSE IF ~(newIndex + 1 \in 1..nv.list) THEN nv
  ELSE updateHoveredIndex(nv, newIndex)

\* A handleKeyDown whose Enter and Space select whatever the index is.
handleKeyDownSelectsAlways(nv, code) ==
  CASE code = "Escape" -> IF nv.isOpened THEN navCall(nv, "onToggle", FALSE) ELSE nv
    [] code \in { "ArrowUp", "ArrowDown" } -> nv
    [] code \in { "Enter", "Space" } ->
         IF nv.isOpened THEN navCall(nv, "onSelect", nv.currentHoveredIndex)
         ELSE navCall(nv, "onToggle", TRUE)
    [] OTHER -> nv

handleKeyDown(nv, code) ==
  CASE code = "Escape" -> IF nv.isOpened THEN navCall(nv, "onToggle", FALSE) ELSE nv
    [] code = "ArrowUp" ->
         IF nv.isOpened
           THEN updateListPosition(nv, IF nv.currentHoveredIndex > 0
                                         THEN nv.currentHoveredIndex - 1
                                       ELSE nv.itemsLength - 1)
         ELSE nv
    [] code = "ArrowDown" ->
         IF nv.isOpened
           THEN updateListPosition(nv, IF nv.currentHoveredIndex < nv.itemsLength - 1
                                         THEN nv.currentHoveredIndex + 1
                                       ELSE 0)
         ELSE nv
    [] code \in { "Enter", "Space" } ->
         IF /\ nv.isOpened
            /\ nv.currentHoveredIndex >= 0
            /\ nv.currentHoveredIndex < nv.itemsLength
           THEN navCall(nv, "onSelect", nv.currentHoveredIndex)
         ELSE navCall(nv, "onToggle", TRUE)
    [] OTHER -> nv

\* The effect with the dependency isOpened, run in a render whose state is index.
openedEffect(nv, index) ==
  IF nv.isOpened
    THEN updateListPosition(updateHoveredIndex(nv, index), index)
  ELSE nv

navStep(nv, kind, code) ==
  [ nv EXCEPT !.calls = << >>,
              !.ev = [kind |-> kind, code |-> code, was |-> nv.currentHoveredIndex] ]

InitNav ==
  /\ InitQuiet
  /\ geo = Null
  /\ menu = Null
  /\ hook \in { openedEffect([ itemsLength |-> n, isOpened |-> o, hoveredIndex |-> x,
                              currentHoveredIndex |-> x, list |-> l, calls |-> << >>,
                              ev |-> [kind |-> "mount", code |-> "", was |-> x] ], x) :
                n \in ItemsLengths, o \in BOOLEAN, x \in HoveredIndexes, l \in Lists }

\* onKeyDown of the latest render receives a key event.
KeyDown(code) ==
  /\ hook' = handleKeyDown(navStep(hook, "key", code), code)
  /\ UNCHANGED << engineVars, other, geo, menu >>

\* The host renders the hook with other options. The effect of hoveredIndex sets
\* the state to the option; the effect of isOpened, which runs after it, sets it
\* to the index of this render.
NavRender(n, o, x) ==
  /\ << n, o, x >> # << hook.itemsLength, hook.isOpened, hook.hoveredIndex >>
  /\ LET nv1 == [ navStep(hook, "render", "") EXCEPT
                    !.itemsLength = n, !.isOpened = o, !.hoveredIndex = x,
                    !.currentHoveredIndex = IF x # hook.hoveredIndex THEN x ELSE @ ]
     IN hook' = IF o # hook.isOpened
                  THEN openedEffect(nv1, hook.currentHoveredIndex)
                ELSE nv1
  /\ UNCHANGED << engineVars, other, geo, menu >>

\* listRef.current is set to a list element or to null.
NavSetList(l) ==
  /\ l # hook.list
  /\ hook' = [ navStep(hook, "ref", "") EXCEPT !.list = l ]
  /\ UNCHANGED << engineVars, other, geo, menu >>

NextNav ==
  \/ \E code \in KeyCodes : KeyDown(code)
  \/ \E n \in ItemsLengths, o \in BOOLEAN, x \in HoveredIndexes : NavRender(n, o, x)
  \/ \E l \in Lists : NavSetList(l)

SpecNav == InitNav /\ [][NextNav]_vars

(***************************************************************************)
(* The values of JavaScript the hooks compare: null, numbers, and objects  *)
(* with one numeric property. Two objects with the same properties are two *)
(* objects when their copy numbers differ; an object is never modified.    *)
(***************************************************************************)
\* undefined where a dependency list is expected: the lists of the renders have at
\* least one element.
NoDeps == << >>

NullValue == [t |-> "null"]

Num(n) == [t |-> "num", v |-> n]

Obj(key, n, copy) == [t |-> "obj", keys |-> {key}, val |-> [k \in {key} |-> Num(n)],
                      copy |-> copy]

Values ==
  { NullValue } \cup { Num(n) : n \in 0..MaxValue }
    \cup { Obj("count", n, copy) : n \in 0..MaxValue, copy \in 1..2 }
    \cup { Obj("count2", n, 1) : n \in 0..MaxValue }

\* value1 === value2, also Object.is for these values.
strictEquals(value1, value2) == value1 = value2

\* An isEqual that stops at the identity of its arguments.
isEqualByIdentity(value1, value2) == strictEquals(value1, value2)

RECURSIVE isEqual(_, _)
isEqual(value1, value2) ==
  IF strictEquals(value1, value2) THEN TRUE
  ELSE IF value1.t = "null" \/ value2.t = "null" THEN FALSE
  ELSE IF value1.t = "obj" /\ value2.t = "obj"
    THEN /\ Cardinality(value1.keys) = Cardinality(value2.keys)
         /\ \A key \in value1.keys :
              key \in value2.keys /\ isEqual(value1.val[key], value2.val[key])
  ELSE FALSE

\* isEqual of two dependency lists, or of undefined and a list: arrays are objects
\* whose keys are their indexes. The array of a render is a new array.
isEqualLists(list1, list2) ==
  IF list1 = NoDeps THEN FALSE
  ELSE /\ Len(list1) = Len(list2)
       /\ \A i \in DOMAIN list1 : isEqual(list1[i], list2[i])

\* The comparison of the dependencies of useEffect: Object.is element by element.
areHookInputsEqual(nextDeps, prevDeps) ==
  \A i \in DOMAIN prevDeps : strictEquals(nextDeps[i], prevDeps[i])

\* The dependency lists: of one element or of two.
DepsLengths == { 1, 2 }

DepsLists == UNION { [ 1..n -> Values ] : n \in DepsLengths }

(***************************************************************************)
(* useDeepCompareEffect. hook holds the dependency list of the latest      *)
(* render (deps), currentDependenciesRef.current (ref), and of the latest  *)
(* step whether the callback ran (ran) and which list the callback had run *)
(* with before (lastRun). The callback returns a cleanup function: cleanup *)
(* tells whether the latest run of the effect returned one, active whether *)
(* what the callback set up is in place, cleaned whether the latest step   *)
(* ran a cleanup function.                                                 *)
(***************************************************************************)
\* React runs the function the latest run of the effect returned, if it
\* returned one, before the effect runs again and at unmount.
deepCleanup(h) ==
  IF h.cleanup THEN [ h EXCEPT !.cleanup = FALSE, !.active = FALSE, !.cleaned = TRUE ]
  ELSE [ h EXCEPT !.cleaned = FALSE ]

\* The body of the effect, run with the list dependencies.
deepCompareEffect(h, dependencies) ==
  IF isEqualLists(h.ref, dependencies) THEN [ h EXCEPT !.ran = FALSE, !.cleanup = FALSE ]
  ELSE [ h EXCEPT !.ref = dependencies, !.ran = TRUE, !.cleanup = TRUE,
                  !.active = TRUE ]

InitDeep ==
  /\ InitQuiet
  /\ geo = Null
  /\ menu = Null
  /\ hook \in { deepCompareEffect([ deps |-> d, ref |-> NoDeps, ran |-> FALSE,
                                   lastRun |-> NoDeps, mounted |-> TRUE,
                                   cleanup |-> FALSE, active |-> FALSE,
                                   cleaned |-> FALSE ], d) :
                d \in DepsLists }

\* The host renders the hook with a list of the same length: the effect runs when
\* an element of the list is not the element of the latest render, after the
\* cleanup of its latest run.
DeepRender(d) ==
  /\ hook.mounted
  /\ Len(d) = Len(hook.deps)
  /\ LET h1 == [ hook EXCEPT !.deps = d, !.lastRun = hook.ref ]
     IN hook' = IF areHookInputsEqual(d, hook.deps)
                  THEN [ h1 EXCEPT !.ran = FALSE, !.cleaned = FALSE ]
                ELSE deepCompareEffect(deepCleanup(h1), d)
  /\ UNCHANGED << engineVars, other, geo, menu >>

\* The host unmounts the component: the cleanup of the latest run of the effect.
DeepUnmount ==
  /\ hook.mounted
  /\ hook' = [ deepCleanup(hook) EXCEPT !.mounted = FALSE ]
  /\ UNCHANGED << engineVars, other, geo, menu >>

NextDeep ==
  \/ \E d \in DepsLists : DeepRender(d)
  \/ DeepUnmount

SpecDeep == InitDeep /\ [][NextDeep]_vars

(***************************************************************************)
(* usePrevious. hook holds stateRef.current (previous, new), the value the *)
(* latest render returned (returned) and the values of all renders in      *)
(* order (trace).                                                          *)
(***************************************************************************)
UndefinedValue == [t |-> "undefined"]

\* The values the host passes to usePrevious: undefined, numbers, and two objects
\* with the same properties.
PrevValues ==
  { UndefinedValue } \cup { Num(n) : n \in 0..MaxValue }
    \cup { Obj("count", 0, copy) : copy \in 1..2 }

\* A usePrevious that returns the value of the render before.
usePreviousOfLastRender(st, value) == [previous |-> st.new, new |-> value]

\* The body of usePrevious after useRef: stateRef.current after the render.
usePrevious(st, value) ==
  IF ~strictEquals(st.new, value) THEN [previous |-> st.new, new |-> value]
  ELSE st

\* The first render: useRef takes its initial value, which holds the value of the
\* render, and undefined is returned.
InitPrev ==
  /\ InitQuiet
  /\ geo = Null
  /\ menu = Null
  /\ hook \in { [ stateRef |-> [previous |-> UndefinedValue, new |-> v],
                 returned |-> UndefinedValue,
                 trace |-> << v >> ] : v \in PrevValues }

\* The host renders the hook with value v.
PrevRender(v) ==
  /\ Len(hook.trace) < MaxRenders
  /\ hook' = [ stateRef |-> usePrevious(hook.stateRef, v),
               returned |-> usePrevious(hook.stateRef, v).previous,
               trace |-> Append(hook.trace, v) ]
  /\ UNCHANGED << engineVars, other, geo, menu >>

NextPrev == \E v \in PrevValues : PrevRender(v)

SpecPrev == InitPrev /\ [][NextPrev]_vars

(***************************************************************************)
(* throttle. hook holds the arguments of throttle (wait, leading,          *)
(* trailing), the variables of its closure (timeout: 0 for null, else the  *)
(* id of the timeout; context and args: 0 for null, 1 once a call has set   *)
(* them; result; previous), Date.now() (clock), the pending timeouts of    *)
(* the runtime [id, due] (timers), what the latest step was (ev), and the  *)
(* history of the invocations of func: func returns the time it is invoked *)
(* at, so result is the time of its latest invocation (0 when there is     *)
(* none); before is the time of the invocation before that one, cancelled  *)
(* whether cancel() was called between the two, cancelSince whether it was *)
(* called since the latest.                                                *)
(***************************************************************************)
\* Date.now() is far greater than any wait: the clock starts above the waits.
ClockStart == MaxWait + 2

Waits == 0..MaxWait

now(h) == h.clock

\* func.apply(context, args)
func(h) ==
  [ h EXCEPT !.before = h.result, !.result = now(h), !.cancelled = h.cancelSince,
             !.cancelSince = FALSE ]

\* A later that leaves previous as it was.
laterKeepsPrevious(h) ==
  LET h1 == [ h EXCEPT !.timeout = 0 ]
      h2 == IF h1.args # 0 /\ h1.context # 0 THEN func(h1) ELSE h1
  IN [ h2 EXCEPT !.context = 0, !.args = 0 ]

\* The callback of the trailing timeout.
later(h) ==
  LET h1 == [ h EXCEPT !.previous = IF ~h.leading THEN 0 ELSE now(h), !.timeout = 0 ]
      h2 == IF h1.args # 0 /\ h1.context # 0 THEN func(h1) ELSE h1
  IN [ h2 EXCEPT !.context = 0, !.args = 0 ]

\* A call of the throttled function.
throttled(h) ==
  LET current == now(h)
      h1 == IF h.previous = 0 /\ ~h.leading THEN [ h EXCEPT !.previous = current ] ELSE h
      remaining == h1.wait - (current - h1.previous)
      h2 == [ h1 EXCEPT !.context = 1, !.args = 1 ]
  IN IF remaining <= 0 \/ remaining > h2.wait
       THEN LET h3 == IF h2.timeout # 0
                        THEN [ h2 EXCEPT !.timers = clearTimeout(@, h2.timeout),
                                         !.timeout = 0 ]
                      ELSE h2
            IN [ func([ h3 EXCEPT !.previous = current ]) EXCEPT !.context = 0,
                                                                 !.args = 0 ]
     ELSE IF h2.timeout = 0 /\ h2.trailing
       THEN LET id == newTimerId(h2.timers)
            IN [ h2 EXCEPT !.timeout = id,
                           !.timers = @ \cup { [id |-> id, due |-> current + remaining] } ]
     ELSE h2

\* throttled.cancel()
cancel(h) ==
  [ h EXCEPT !.timers = IF h.timeout # 0 THEN clearTimeout(@, h.timeout) ELSE @,
             !.previous = 0, !.timeout = 0, !.context = 0, !.args = 0,
             !.cancelSince = TRUE ]

InitThrottle ==
  /\ InitQuiet
  /\ geo = Null
  /\ menu = Null
  /\ hook \in { [ wait |-> w, leading |-> l, trailing |-> t, clock |-> ClockStart,
                  timeout |-> 0, context |-> 0, args |-> 0, result |-> 0, previous |-> 0,
                  timers |-> {}, ev |-> "throttle", before |-> 0, cancelled |-> FALSE,
                  cancelSince |-> FALSE ] :
                w \in Waits, l \in BOOLEAN, t \in BOOLEAN }

\* The throttled function is called.
ThrottledCall ==
  /\ hook' = [ throttled(hook) EXCEPT !.ev = "call" ]
  /\ UNCHANGED << engineVars, other, geo, menu >>

\* A timeout that is due runs its callback, at its time or later.
ThrottleTimeout ==
  /\ \E t \in hook.timers :
       /\ t.due <= hook.clock
       /\ hook' = [ later([ hook EXCEPT !.timers = @ \ {t} ]) EXCEPT !.ev = "timeout" ]
  /\ UNCHANGED << engineVars, other, geo, menu >>

\* throttled.cancel() is called.
ThrottleCancel ==
  /\ hook.ev # "cancel"
  /\ hook' = [ cancel(hook) EXCEPT !.ev = "cancel" ]
  /\ UNCHANGED << engineVars, other, geo, menu >>

\* A millisecond passes.
ThrottleTick ==
  /\ hook.clock < ClockStart + MaxTime
  /\ hook' = [ hook EXCEPT !.clock = @ + 1, !.ev = "tick" ]
  /\ UNCHANGED << engineVars, other, geo, menu >>

NextThrottle ==
  \/ ThrottledCall
  \/ ThrottleTimeout
  \/ ThrottleCancel
  \/ ThrottleTick

SpecThrottle == InitThrottle /\ [][NextThrottle]_vars

(***************************************************************************)
(* The properties of the aiming engine.                                    *)
(***************************************************************************)

\* The cursor p lies inside the rectangle e or on its border.
InsideOrOnBorder(p, e) ==
  /\ e.left <= p.x /\ p.x <= e.right
  /\ e.top <= p.y /\ p.y <= e.bottom

\* The latest step was a processed move whose triangle test was computed: two
\* samples, a registered target, the cursor outside of it.
TriangleTested ==
  /\ ev.kind = "move"
  /\ el # NoEl
  /\ ~InsideOrOnBorder(lastCursorRef, el)
  /\ ev.computed

\* C1: the change callback is invoked exactly when the aiming state takes a value
\* different from its previous value, and never with the value the engine
\* already had.
C1_HandlerCalledExactlyOnChange ==
  ev.kind \in {"move", "idle", "enable", "disable"}
    => /\ \A i \in 1..Len(calls) : calls[i].value # calls[i].was
       /\ (isAimingRef # ev.was) => calls # << >>

C2_WitnessHeld ==
  /\ TriangleTested /\ ev.was /\ ~ev.raw
  /\ ev.acc > 0 /\ ev.acc < tolerance * Scale
  /\ isAimingRef

C4_InsideIsNotAiming ==
  (ev.kind = "move" /\ el # NoEl /\ InsideOrOnBorder(lastCursorRef, el))
    => ~isAimingRef

\* A short move from AIMING onto the left border of the target.
C4_Witness ==
  /\ ev.kind = "move" /\ el # NoEl
  /\ ev.was
  /\ lastCursorRef.x = el.left
  /\ InsideOrOnBorder(lastCursorRef, el)
  /\ ev.acc < tolerance * Scale
  /\ ~isAimingRef

\* C5: at every point, if the target element is not registered (the ref detached
\* between moves or the host unmounted included) or fewer than two cursor
\* samples were recorded since the engine was enabled, the aiming state is false.
C5_FalseWithoutTargetOrSamples ==
  (el = NoEl \/ prevCursorRef = Null) => ~isAimingRef

\* C5, amended: the aiming state is false whenever fewer than two cursor samples
\* were recorded since the engine was enabled, and after every move processed
\* while the target is not registered.
C5_FalseAfterMoveWithoutTarget ==
  /\ prevCursorRef = Null => ~isAimingRef
  /\ (ev.kind = "move" /\ el = NoEl) => ~isAimingRef

\* A move processed from AIMING, with two samples, after the ref was detached.
C5_Witness ==
  /\ ev.kind = "move" /\ el = NoEl
  /\ ev.was
  /\ prevCursorRef # Null
  /\ ~isAimingRef

\* C6: if the state is AIMING after a move and no further move arrives, the state
\* is AIMING at every instant less than idleTimeout after the move, and the
\* timeout callback makes it NOT_AIMING at exactly idleTimeout after it.
C6_IdleTimeoutExact ==
  (lastMove # Null /\ lastMove.aimed)
    => /\ lastMove.t < lastMove.idle => (isAimingRef /\ ~lastMove.fired)
       /\ lastMove.t = lastMove.idle => (lastMove.fired <=> ~isAimingRef)
       /\ lastMove.t > lastMove.idle => (lastMove.fired /\ ~isAimingRef)

\* The longest idle timeout has run out after a move that left the state AIMING.
C6_Witness ==
  /\ lastMove # Null /\ lastMove.aimed
  /\ lastMove.idle = MaxIdleTimeout
  /\ lastMove.t = lastMove.idle
  /\ lastMove.fired
  /\ ~isAimingRef

\* C7: at most one idle timeout is pending; it is the one the latest move armed,
\* and it runs idleTimeout after that move.
C7_SinglePendingTimeout ==
  /\ Cardinality(timers) <= 1
  /\ \A t \in timers :
       /\ t.id = idleTimeoutRef
       /\ lastMove # Null
       /\ t.left + lastMove.t = lastMove.idle

\* A move cancelled the timeout an earlier move had armed, and armed its own.
C7_Witness ==
  /\ ev.kind = "move" /\ ev.rearmed
  /\ Cardinality(timers) = 1

\* C8: while the enabled flag is false the aiming state is false, the cursor
\* samples and the movement accumulator are cleared, no move listener is
\* attached, no move is processed and no timeout is pending.
C8_DisabledIsInert ==
  ~isEnabled
    => /\ ~isAimingRef
       /\ lastCursorRef = Null /\ prevCursorRef = Null
       /\ lastRecalcCursorRef = Null
       /\ accumulatedMovementRef = 0
       /\ ~listener
       /\ timers = {}
       /\ ev.kind # "move"

\* A pointer move reaches the document of a mounted host whose engine was
\* disabled after it had processed moves.
C8_Witness ==
  /\ mounted /\ ~isEnabled
  /\ idleTimeoutRef # 0
  /\ ev.kind = "ignored"

\* C9: once the engine is detached (disabled, or the host unmounted) no timeout
\* of it is pending and its change callback is not invoked until it is enabled
\* again. The engine has processed a move before: idleTimeoutRef holds the id
\* of a timeout it armed.
C9_SilentAfterDetach ==
  ((~isEnabled \/ ~mounted) /\ idleTimeoutRef # 0)
    => /\ timers = {}
       /\ ev.kind \notin {"mount", "disable"} => calls = << >>

\* C10: with the tolerance of the second instance at least that of the first and
\* both fed the same moves, timeouts and rectangles, the second instance is
\* NOT_AIMING only if the first is.
C10_ToleranceMonotone ==
  ~other.isAimingRef => ~isAimingRef

\* The instance of the smaller tolerance left AIMING and the other held it.
C10_Witness ==
  /\ other.tolerance > tolerance
  /\ ~isAimingRef
  /\ other.isAimingRef

\* C11: a move-driven transition from AIMING to NOT_AIMING, with the target
\* registered and the cursor outside of it, occurs only when the movement
\* accumulated since the last commit strictly exceeds the tolerance; at an
\* accumulated movement equal to the tolerance the state stays AIMING.
C11_ExitOnlyAboveTolerance ==
  (TriangleTested /\ ev.was /\ ~isAimingRef) => ev.acc > tolerance * Scale

\* The move the tolerance gate held back: the state was AIMING, the triangle test
\* of the move was false, and the state is still AIMING.
HeldByGate ==
  TriangleTested /\ ev.was /\ ~ev.raw /\ isAimingRef

\* C12: the movement accumulator is the summed length of the moves since the
\* latest committed decision, idle timeout or disable: a move the gate holds
\* back adds its length, every other processed move, the idle timeout and the
\* disabled effect leave 0, and no other step changes it.
C12_AccumulatorIsSumSinceCommit ==
  [][ accumulatedMovementRef' =
        IF ev'.kind = "move"
          THEN IF HeldByGate'
                 THEN accumulatedMovementRef
                        + movementDistance(lastCursorRef', lastCursorRef)
                 ELSE 0
        ELSE IF ev'.kind \in {"idle", "disable"} THEN 0
        ELSE accumulatedMovementRef ]_vars

\* Two moves in a row were held back and their lengths added up.
C12_Witness ==
  /\ HeldByGate
  /\ movementDistance(lastCursorRef, prevCursorRef) > 0
  /\ accumulatedMovementRef > movementDistance(lastCursorRef, prevCursorRef)

(***************************************************************************)
(* The properties of the geometry kernel.                                  *)
(***************************************************************************)

\* The vertices of the rectangle of the evaluation.
GeoVertices == getElementVertices(geo.rect)

\* 2*K*K times the outside area of the triangle of the pair of index i.
GeoOutsideArea(i) ==
  outsideAreaOf(geo.cursor, GeoVertices[pairs[i][1]], GeoVertices[pairs[i][2]],
                GeoVertices, lcmOfDistances(geo.cursor, GeoVertices, 1))

\* The rectangle of the evaluation has a positive width and height.
GeoProper == geo.rect.left < geo.rect.right /\ geo.rect.top < geo.rect.bottom

\* C17: for every cursor and every rectangle, those of zero width or height
\* included, findBestIntentEdge does not return null: it returns the first of the
\* six vertex pairs, in the order of the loop, whose outside area is the maximum
\* over the six.
C17_BestEdgeIsFirstMaximum ==
  geo.op = "findBestIntentEdge"
    => \E i \in 1..Len(pairs) :
         /\ geo.edge = << GeoVertices[pairs[i][1]], GeoVertices[pairs[i][2]] >>
         /\ \A j \in 1..Len(pairs) : GeoOutsideArea(j) <= GeoOutsideArea(i)
         /\ \A j \in 1..(i - 1) : GeoOutsideArea(j) < GeoOutsideArea(i)

\* A later pair than the one returned has the same, positive, outside area.
C17_Witness ==
  /\ geo.op = "findBestIntentEdge"
  /\ GeoProper
  /\ \E i, j \in 1..Len(pairs) :
       /\ i < j
       /\ geo.edge = << GeoVertices[pairs[i][1]], GeoVertices[pairs[i][2]] >>
       /\ GeoOutsideArea(i) > 0
       /\ GeoOutsideArea(j) = GeoOutsideArea(i)

\* An edge was returned for a rectangle of zero width.
C17_WitnessDegenerate ==
  /\ geo.op = "findBestIntentEdge"
  /\ geo.rect.left = geo.rect.right
  /\ geo.edge # << >>

\* The side of the rectangle the cursor is beyond, the cursor's other coordinate
\* being within the span of that side: at a distance of at least margin from the
\* ends of the span. << >> when the cursor is not beyond exactly one side.
GeoNearSide(margin) ==
  LET c == geo.cursor
      e == geo.rect
      inY == e.top + margin <= c.y /\ c.y <= e.bottom - margin
      inX == e.left + margin <= c.x /\ c.x <= e.right - margin
  IN IF c.x < e.left /\ inY THEN << GeoVertices[1], GeoVertices[4] >>
     ELSE IF c.x > e.right /\ inY THEN << GeoVertices[2], GeoVertices[3] >>
     ELSE IF c.y < e.top /\ inX THEN << GeoVertices[1], GeoVertices[2] >>
     ELSE IF c.y > e.bottom /\ inX THEN << GeoVertices[3], GeoVertices[4] >>
     ELSE << >>

\* Two edges have the same end points.
SameEdge(e1, e2) ==
  /\ Len(e1) = 2 /\ Len(e2) = 2
  /\ { e1[1], e1[2] } = { e2[1], e2[2] }

\* C18: for a cursor outside the rectangle beyond exactly one side, its other
\* coordinate within the span of that side, the ends of the span included,
\* findBestIntentEdge returns the two corners of that side.
C18_NearSideInclusive ==
  (geo.op = "findBestIntentEdge" /\ GeoProper /\ GeoNearSide(0) # << >>)
    => SameEdge(geo.edge, GeoNearSide(0))

\* C18, amended: for a cursor outside the rectangle beyond exactly one side, its
\* other coordinate strictly within the span of that side, findBestIntentEdge
\* returns the two corners of that side.
C18_NearSideStrict ==
  (geo.op = "findBestIntentEdge" /\ GeoNearSide(1) # << >>)
    => SameEdge(geo.edge, GeoNearSide(1))

\* A cursor below the bottom side, next to it, strictly within its span.
C18_Witness ==
  /\ geo.op = "findBestIntentEdge" /\ GeoProper
  /\ geo.cursor.y = geo.rect.bottom + 1
  /\ GeoNearSide(1) = << GeoVertices[3], GeoVertices[4] >>
  /\ geo.edge = GeoNearSide(1)

\* C19: when the target rectangle is degenerate (zero width or zero height, such
\* as a bounding box of all zeros), every move leaves the engine NOT_AIMING.
\* Stated for the moves that change the position of the cursor.
C19_DegenerateIsNotAiming ==
  /\ ev.kind = "move"
  /\ el # NoEl /\ (el.left = el.right \/ el.top = el.bottom)
  /\ lastCursorRef # prevCursorRef
  => ~isAimingRef

\* C20: for every cursor and every pair of corners a, b of the rectangle, the
\* area of the polygon clipTriangleByRectangle returns for the triangle
\* (cursor, a, b) does not exceed the area of the triangle.
C20_OverlapWithinTriangle ==
  geo.op = "clipTriangleByRectangle"
    => /\ geo.overlapArea <= geo.triangleAreaValue
       /\ geo.overlapArea >= 0

\* A triangle that the rectangle cuts in a polygon of more than three points,
\* smaller than the triangle.
C20_Witness ==
  /\ geo.op = "clipTriangleByRectangle"
  /\ Len(geo.polygon) > 3
  /\ 2 * geo.overlapArea > geo.triangleAreaValue
  /\ geo.overlapArea < geo.triangleAreaValue

(***************************************************************************)
(* The properties of the directional engine.                               *)
(***************************************************************************)
Orient(a, b, c) == (b.x - a.x) * (c.y - a.y) - (b.y - a.y) * (c.x - a.x)

\* p is a point of the closed triangle a, b, c: of its convex hull, which is a
\* segment or a point when the corners are collinear.
InClosedTriangle(p, a, b, c) ==
  LET o == Orient(a, b, c)
  IN IF o # 0
       THEN /\ o * Orient(a, b, p) >= 0
            /\ o * Orient(b, c, p) >= 0
            /\ o * Orient(c, a, p) >= 0
     ELSE /\ Orient(a, b, p) = 0 /\ Orient(a, c, p) = 0 /\ Orient(b, c, p) = 0
          /\ Min2(a.x, Min2(b.x, c.x)) <= p.x /\ p.x <= Max2(a.x, Max2(b.x, c.x))
          /\ Min2(a.y, Min2(b.y, c.y)) <= p.y /\ p.y <= Max2(a.y, Max2(b.y, c.y))

\* The two corners of the side of the submenu that faces the pointer, each moved
\* outward by the tolerance along the side.
MenuNearSide ==
  LET e == menu.el
      tol == menu.tolerance
  IN IF menu.direction \in { "left", "right" }
       THEN LET x == IF menu.direction = "right" THEN e.left ELSE e.right
            IN { Pt(x, e.top - tol), Pt(x, e.bottom + tol) }
     ELSE LET y == IF menu.direction = "bottom" THEN e.top ELSE e.bottom
          IN { Pt(e.left - tol, y), Pt(e.right + tol, y) }

\* The component of the latest movement along the direction of the submenu.
MenuAdvance ==
  LET dx == menu.lastCursorRef.x - menu.prevCursorRef.x
      dy == menu.lastCursorRef.y - menu.prevCursorRef.y
  IN CASE menu.direction = "right" -> dx
       [] menu.direction = "left" -> -dx
       [] menu.direction = "bottom" -> dy
       [] menu.direction = "top" -> -dy

MenuMoveDecided ==
  /\ menu.ev.kind = "move"
  /\ menu.el # NoEl
  /\ menu.prevCursorRef # Null

\* C13: after every move with a target and a previous cursor sample, the state is
\* AIMING exactly when the cursor lies in the closed triangle (previous cursor,
\* the two corners of the near side moved outward by the tolerance) and the
\* movement has a strictly positive component along the direction.
C13_DecisionIsTriangleAndDirection ==
  MenuMoveDecided =>
    ( menu.isAimingRef <=>
        /\ \E a \in MenuNearSide : \E b \in MenuNearSide :
             /\ MenuNearSide = {a, b}
             /\ InClosedTriangle(menu.lastCursorRef, menu.prevCursorRef, a, b)
        /\ MenuAdvance > 0 )

\* C14: the recompute that runs RECALC_DELAY after the last move leaves the
\* engine NOT_AIMING.
C14_DeferredRecomputeEndsAiming ==
  menu.ev.kind = "recheck" /\ menu.ev.was => ~menu.isAimingRef

\* C15: after reset is invoked on an enabled engine both cursor samples are
\* cleared.
C15_ResetClearsSamples ==
  menu.ev.kind = "reset" /\ menu.isEnabled
    => menu.lastCursorRef = Null /\ menu.prevCursorRef = Null

\* C16: after a move that leaves the cursor strictly inside the rectangle of the
\* target the state is NOT_AIMING, for every direction, tolerance and previous
\* cursor.
C16_InsideTargetIsNotAiming ==
  /\ menu.ev.kind = "move"
  /\ menu.el # NoEl
  /\ menu.el.left < menu.lastCursorRef.x /\ menu.lastCursorRef.x < menu.el.right
  /\ menu.el.top < menu.lastCursorRef.y /\ menu.lastCursorRef.y < menu.el.bottom
  => ~menu.isAimingRef

\* An engine that was AIMING sees the pointer enter the target, ahead along the
\* direction.
C16_Witness ==
  /\ MenuMoveDecided
  /\ menu.ev.was
  /\ MenuAdvance > 0
  /\ menu.el.left < menu.lastCursorRef.x /\ menu.lastCursorRef.x < menu.el.right
  /\ menu.el.top < menu.lastCursorRef.y /\ menu.lastCursorRef.y < menu.el.bottom
  /\ ~menu.isAimingRef

\* C21: pointInTriangle(p, a, b, c) gives the same result for every cyclic
\* permutation of the corners a, b, c and for the opposite orientation.
C21_CyclicAndOrientationInvariant ==
  geo.op \in { "pointInTriangle", "menuPointInTriangle" }
    => \A i \in 2..4 : geo.results[i] = geo.results[1]

\* A point strictly inside a triangle of non-zero area, and one outside it.
C21_Witness ==
  /\ geo.op = "pointInTriangle"
  /\ Orient(geo.a, geo.b, geo.c) < 0
  /\ Orient(geo.a, geo.b, geo.p) < 0
  /\ Orient(geo.b, geo.c, geo.p) < 0
  /\ Orient(geo.c, geo.a, geo.p) < 0
  /\ geo.results = << TRUE, TRUE, TRUE, TRUE >>

C21_WitnessOutside ==
  /\ geo.op = "menuPointInTriangle"
  /\ Orient(geo.a, geo.b, geo.c) > 0
  /\ geo.results = << FALSE, FALSE, FALSE, FALSE >>

\* C22: the handler of useMenuAim is invoked only when the aiming value changes:
\* every invocation of a step, the mount included, carries a value that differs
\* from the state it found.
C22_MenuHandlerOnlyOnChange ==
  \A i \in DOMAIN menu.calls : menu.calls[i].value # menu.calls[i].was

(***************************************************************************)
(* The properties of useOnOutsideClick and useOnOutsideMouseMove.          *)
(***************************************************************************)
\* The group of a context in a registry, empty when the registry has no such key.
GroupOf(cfgs, cx) ==
  IF \E k \in DOMAIN cfgs : cfgs[k].context = cx
    THEN cfgs[CHOOSE k \in DOMAIN cfgs : cfgs[k].context = cx].group
  ELSE << >>

\* The options whose handlers the latest event invoked in a context, in order.
InvokedIn(cx) ==
  LET hit == SelectSeq(hook.invoked, LAMBDA r : r.context = cx)
  IN [ j \in DOMAIN hit |-> hit[j].option ]

\* C23: on a click, in each context only the most recently registered entry whose
\* element is attached counts: its handler is invoked when the target is outside
\* its element, no handler of the context is invoked when the target is inside,
\* and no other handler of the context is invoked.
C23_OnlyLatestAttachedEntry ==
  hook.ev.kind = "click" =>
    \A cx \in Contexts :
      LET g == GroupOf(hook.clickConfigs, cx)
          attached == { j \in DOMAIN g : hook.inst[g[j].inst].ref }
      IN IF attached = {} THEN InvokedIn(cx) = << >>
         ELSE LET last == CHOOSE j \in attached : \A j2 \in attached : j2 <= j
              IN InvokedIn(cx) = IF contains(g[last].inst, hook.ev.target) THEN << >>
                                 ELSE << g[last] >>

\* A click outside the elements of two attached entries of one context: the
\* handler of the later one alone is invoked.
C23_Witness ==
  /\ hook.ev.kind = "click"
  /\ \E cx \in Contexts :
       LET g == GroupOf(hook.clickConfigs, cx)
       IN /\ Len(g) = 2
          /\ g[1].inst # g[2].inst
          /\ \A j \in 1..2 : hook.inst[g[j].inst].ref
                               /\ ~contains(g[j].inst, hook.ev.target)
          /\ InvokedIn(cx) = << g[2] >>

\* C24: once a component with useOnOutsideClick has unmounted, the registry holds
\* no entry of it and no click invokes its handler.
C24_NothingLeftAfterUnmount ==
  hook.kind = "click" =>
    \A i \in Inst :
      hook.inst[i].status = "unmounted" =>
        /\ \A cx \in Contexts :
             \A j \in DOMAIN GroupOf(hook.clickConfigs, cx) :
               GroupOf(hook.clickConfigs, cx)[j].inst # i
        /\ \A j \in DOMAIN hook.invoked : hook.invoked[j].option.inst # i

\* The registry without the groups of the other contexts.
OnlyContext(cfgs, cx) == SelectSeq(cfgs, LAMBDA entry : entry.context = cx)

\* C25: the handlers an event invokes in one context are those it would invoke
\* were the groups of every other context empty, in both registries.
C25_ContextsAreIndependent ==
  /\ hook.ev.kind = "click" =>
       \A cx \in Contexts :
         SelectSeq(hook.invoked, LAMBDA r : r.context = cx)
           = handleOutsideClick(OnlyContext(hook.clickConfigs, cx), hook.inst,
                                hook.ev.target, 1)
  /\ hook.ev.kind = "mousemove" =>
       \A cx \in Contexts :
         SelectSeq(hook.invoked, LAMBDA r : r.context = cx)
           = handleOutsideMouseMove(OnlyContext(hook.moveConfigs, cx), hook.inst,
                                    hook.ev.target, 1)

\* A click inside the attached element of the context created first and outside
\* the attached element of the other context: the handler of the other context
\* is invoked.
C25_Witness ==
  /\ hook.ev.kind = "click"
  /\ Len(hook.clickConfigs) = 2
  /\ LET g1 == hook.clickConfigs[1].group
         g2 == hook.clickConfigs[2].group
     IN /\ Len(g1) = 1 /\ Len(g2) = 1
        /\ hook.inst[g1[1].inst].ref /\ contains(g1[1].inst, hook.ev.target)
        /\ hook.inst[g2[1].inst].ref
        /\ hook.invoked = << [context |-> hook.clickConfigs[2].context,
                              option |-> g2[1]] >>

\* How many times the latest event invoked the current handler of component i.
TimesInvoked(i) ==
  Cardinality({ j \in DOMAIN hook.invoked :
                  /\ hook.invoked[j].option.inst = i
                  /\ hook.invoked[j].option.handler = hook.inst[i].handler })

\* C26: on a mousemove the current handler of every mounted component with an
\* attached ref is invoked exactly once when the target is outside its element
\* and not when it is inside; no handler of a component with a null ref, of an
\* unmounted component or of a superseded registration is invoked.
C26_EveryOutsideEntryOnce ==
  hook.ev.kind = "mousemove" =>
    /\ \A i \in Inst :
         TimesInvoked(i) =
           IF /\ hook.inst[i].status = "mounted"
              /\ hook.inst[i].ref
              /\ ~contains(i, hook.ev.target)
             THEN 1 ELSE 0
    /\ \A j \in DOMAIN hook.invoked :
         LET o == hook.invoked[j].option
         IN /\ hook.inst[o.inst].status = "mounted"
            /\ hook.inst[o.inst].ref
            /\ o.handler = hook.inst[o.inst].handler

\* A mousemove over the child of the element of component 1, which has rendered
\* with a new handler since it mounted, while another component is mounted and
\* attached: the handler of the other component alone is invoked.
C26_Witness ==
  /\ hook.ev.kind = "mousemove"
  /\ hook.ev.target = MaxInstances + 1
  /\ hook.inst[1].status = "mounted" /\ hook.inst[1].ref
  /\ hook.inst[1].handler # 1
  /\ \E i \in Inst \ {1} :
       /\ hook.inst[i].status = "mounted" /\ hook.inst[i].ref
       /\ Len(hook.invoked) = 1
       /\ hook.invoked[1].option = hook.inst[i].option

(***************************************************************************)
(* The properties of useKeyboardListNavigation.                            *)
(***************************************************************************)
\* The latest step was a key event on an open list of n >= 1 items, the hovered
\* index within the list.
NavKeyOnOpenList ==
  /\ hook.ev.kind = "key"
  /\ hook.isOpened
  /\ hook.itemsLength >= 1
  /\ hook.ev.was \in 0..(hook.itemsLength - 1)

\* C27: on an open list of n >= 1 items ArrowDown moves the hovered index from i
\* to i + 1, from n - 1 to 0, ArrowUp moves it from i to i - 1, from 0 to n - 1,
\* and every key leaves the index within 0..n-1.
C27_ArrowsMoveAndWrap ==
  NavKeyOnOpenList =>
    /\ hook.ev.code = "ArrowDown"
         => hook.currentHoveredIndex = (hook.ev.was + 1) % hook.itemsLength
    /\ hook.ev.code = "ArrowUp"
         => hook.currentHoveredIndex
              = (hook.ev.was + hook.itemsLength - 1) % hook.itemsLength
    /\ hook.currentHoveredIndex \in 0..(hook.itemsLength - 1)

\* The callbacks onSelect and onToggle among those the latest step invoked.
NavSelectOrToggle == SelectSeq(hook.calls, LAMBDA r : r.fn \in { "onSelect", "onToggle" })

\* C28: Enter and Space call onSelect(currentHoveredIndex) when the list is open
\* and the index is within 0..itemsLength-1, and onToggle(true) otherwise; Escape
\* calls onToggle(false) when the list is open and nothing otherwise; no other key
\* calls onSelect or onToggle; an arrow key on a closed list calls nothing and
\* leaves the index.
C28_KeyCallbacks ==
  hook.ev.kind = "key" =>
    /\ hook.ev.code \in { "Enter", "Space" } =>
         NavSelectOrToggle =
           IF hook.isOpened /\ hook.ev.was \in 0..(hook.itemsLength - 1)
             THEN << [fn |-> "onSelect", arg |-> hook.ev.was] >>
           ELSE << [fn |-> "onToggle", arg |-> TRUE] >>
    /\ hook.ev.code = "Escape" =>
         NavSelectOrToggle = IF hook.isOpened THEN << [fn |-> "onToggle", arg |-> FALSE] >>
                             ELSE << >>
    /\ hook.ev.code \notin { "Enter", "Space", "Escape" } => NavSelectOrToggle = << >>
    /\ hook.ev.code \in { "ArrowUp", "ArrowDown" } /\ ~hook.isOpened =>
         hook.calls = << >> /\ hook.currentHoveredIndex = hook.ev.was

\* Enter on an open list whose hovered index is past the end: onToggle(true).
C28_Witness ==
  /\ hook.ev.kind = "key"
  /\ hook.ev.code = "Enter"
  /\ hook.isOpened
  /\ hook.itemsLength >= 1
  /\ hook.ev.was = hook.itemsLength
  /\ hook.calls = << [fn |-> "onToggle", arg |-> TRUE] >>

\* Space on an open list with the second item hovered: onSelect(1).
C28_WitnessSelect ==
  /\ hook.ev.kind = "key"
  /\ hook.ev.code = "Space"
  /\ hook.isOpened
  /\ hook.ev.was = 1
  /\ hook.calls = << [fn |-> "onSelect", arg |-> 1] >>

(***************************************************************************)
(* The properties of useDeepCompareEffect.                                 *)
(***************************************************************************)
\* A value without the identity of its objects.
Content(value) == IF value.t = "obj" THEN [ value EXCEPT !.copy = 0 ] ELSE value

\* Two dependency lists are deeply equal: the same contents at every index.
DeeplyEqual(list1, list2) ==
  /\ Len(list1) = Len(list2)
  /\ \A i \in DOMAIN list1 : Content(list1[i]) = Content(list2[i])

\* C29: the callback runs in a render exactly when the dependency list of the
\* render is not deeply equal to the list of the last run of the callback; it
\* runs on mount.
C29_RunsIffDeepChange ==
  hook.ran <=> (hook.lastRun = NoDeps \/ ~DeeplyEqual(hook.deps, hook.lastRun))

\* A render with new objects of the same contents, where useEffect runs the effect
\* and the callback does not run.
C29_Witness ==
  /\ hook.lastRun # NoDeps
  /\ \E i \in DOMAIN hook.deps : hook.deps[i] # hook.lastRun[i]
  /\ DeeplyEqual(hook.deps, hook.lastRun)
  /\ ~hook.ran

\* A render in which the property of one object of the list has changed.
C29_WitnessRuns ==
  /\ hook.lastRun # NoDeps
  /\ Len(hook.deps) = 2
  /\ DeeplyEqual(<< hook.deps[1] >>, << hook.lastRun[1] >>)
  /\ hook.deps[2].t = "obj" /\ hook.lastRun[2].t = "obj"
  /\ hook.deps[2].keys = hook.lastRun[2].keys
  /\ hook.ran

(***************************************************************************)
(* The properties of usePrevious.                                          *)
(***************************************************************************)
\* The renders whose value is not the value of the render before.
PrevChanges == { i \in 2..Len(hook.trace) : hook.trace[i] # hook.trace[i - 1] }

RECURSIVE cornersInTriangle(_, _, _, _)
cornersInTriangle(triangleVertices, rectVertices, K, i) ==
  IF i > 4 THEN << >>
  ELSE (IF InClosedTriangle(rectVertices[i], triangleVertices[1],
                            triangleVertices[2], triangleVertices[3])
          THEN << scalePoint(rectVertices[i], K) >> ELSE << >>)
       \o cornersInTriangle(triangleVertices, rectVertices, K, i + 1)

\* The corners of the intersection of two convex polygons are the corners of
\* each that lie in the other and the crossings of their sides: 2*K*K times
\* the area of the intersection of the triangle and the rectangle.
intersectionArea(triangleVertices, rectVertices, K) ==
  LET points == insidePoints(triangleVertices, rectVertices, K, 1)
                \o cornersInTriangle(triangleVertices, rectVertices, K, 1)
                \o edgeIntersections(triangleVertices, rectVertices, K, 0)
      uniquePoints == uniquePointsOf(points, 1, << >>)
  IN IF Len(uniquePoints) < 3 THEN 0
     ELSE polygonArea(sortByAngle(uniquePoints, 1, << >>, sumX(uniquePoints, 1),
                                  sumY(uniquePoints, 1), Len(uniquePoints)))

\* 2*K*K times the area of the intersection for the evaluated pair.
GeoIntersectionArea ==
  intersectionArea(<< geo.cursor, GeoVertices[pairs[geo.pair][1]],
                      GeoVertices[pairs[geo.pair][2]] >>, GeoVertices, geo.K)

\* C31: for every cursor outside the rectangle and each of the six vertex pairs
\* (a, b), triangleArea(cursor, a, b) - triangleRectangleOverlapArea(cursor, a,
\* b, rect) is the area of the part of the triangle outside the rectangle: the
\* clip polygon is the intersection of the triangle and the rectangle, the
\* corners of the rectangle inside the triangle included.
C31_OutsideAreaIsExact ==
  /\ geo.op = "clipTriangleByRectangle"
  /\ ~pointInRectangle(geo.cursor, GeoVertices)
  => geo.triangleAreaValue - geo.overlapArea
       = geo.triangleAreaValue - GeoIntersectionArea


\* C32: for all points p, a, b, c, pointInTriangle(p, a, b, c) is true exactly
\* when p is a point of the closed triangle a, b, c (its boundary included), in
\* the aiming engine and in the directional engine alike.
C32_PointInTriangleIsMembership ==
  geo.op \in { "pointInTriangle", "menuPointInTriangle" }
    => (geo.results[1] <=> InClosedTriangle(geo.p, geo.a, geo.b, geo.c))


(***************************************************************************)
(* The aiming engine under re-renders, and its accumulator.                *)
(***************************************************************************)
\* C33: whenever the engine is mounted and enabled and its state is AIMING, the
\* idle timeout it armed is pending (so that without a further move the state
\* returns to NOT_AIMING), also after a render with another tolerance or
\* idleTimeout.
C33_AimingHasIdleTimeout ==
  (mounted /\ isEnabled /\ isAimingRef)
    => \E t \in timers : t.id = idleTimeoutRef


\* C34: every notification of the engine goes to the handler of the most recent
\* render: after a render with another handler function the earlier one is not
\* invoked again, neither by the recalculation of a move nor by the idle
\* timeout.
C34_OnlyLatestHandlerInvoked ==
  \A i \in 1..Len(calls) : calls[i].handler = handler


\* C35: a move whose coordinates equal the previous position of the cursor
\* (zero displacement) never changes the state from NOT_AIMING to AIMING.
C35_ZeroMoveDoesNotStartAiming ==
  (ev.kind = "move" /\ lastCursorRef = prevCursorRef /\ ~ev.was) => ~isAimingRef


\* C40: whenever the state is NOT_AIMING the movement accumulator is 0; the
\* accumulator is non-zero only while the state is AIMING, and a move leaves it
\* non-zero only when the tolerance gate held that move back.
C40_AccumulatorZeroUnlessHeld ==
  /\ ~isAimingRef => accumulatedMovementRef = 0
  /\ (ev.kind = "move" /\ accumulatedMovementRef # 0) => HeldByGate

\* A move that ends aiming: the movement accumulated, this move included, was
\* not zero, the state is NOT_AIMING and the accumulator is back at 0.
C40_Witness ==
  /\ TriangleTested /\ ev.was /\ ev.acc > 0
  /\ ~isAimingRef /\ accumulatedMovementRef = 0

\* A move the gate held back, with movement accumulated.
C40_WitnessHeld ==
  HeldByGate /\ accumulatedMovementRef > 0


(***************************************************************************)
(* The cleanup of useDeepCompareEffect.                                    *)
(***************************************************************************)
\* C36: the cleanup function the callback returned is run only right before the
\* callback runs again or at unmount; a render whose dependencies are deeply
\* equal to those of the last run does not run it, so what the callback set up
\* stays in place while the component is mounted.
C36_CleanupOnlyBeforeRerunOrUnmount ==
  /\ hook.cleaned => (hook.ran \/ ~hook.mounted)
  /\ hook.mounted => hook.active


(***************************************************************************)
(* The registration of useOnOutsideClick.                                  *)
(***************************************************************************)
\* The options whose registration timeout is pending.
PendingOptions == { hook.timers[j].option : j \in DOMAIN hook.timers }

\* C37: the registration of a handler takes effect only when the timeout its
\* effect has set has run: no click processed before that invokes the handler.
C37_NoClickBeforeRegistration ==
  hook.ev.kind = "click" =>
    \A j \in DOMAIN hook.invoked :
      /\ hook.invoked[j].option \notin PendingOptions
      /\ \A o \in PendingOptions : o.handler # hook.invoked[j].option.handler

\* A click outside the element of a component that has mounted with its ref
\* attached and whose timeout has not run: its handler is not invoked, and the
\* handler of a component registered before is.
C37_Witness ==
  /\ hook.ev.kind = "click"
  /\ \E o \in PendingOptions :
       /\ hook.inst[o.inst].status = "mounted"
       /\ hook.inst[o.inst].ref
       /\ ~contains(o.inst, hook.ev.target)
       /\ \A j \in DOMAIN hook.invoked : hook.invoked[j].option.inst # o.inst
  /\ hook.invoked # << >>

\* C38: in each context the entries of the mounted components are in the order
\* the components mounted, one entry per component: the component treated as
\* most recent is the one that mounted last, also after an earlier component
\* has rendered again with a new handler function.
C38_RegistryFollowsMountOrder ==
  hook.kind = "click" =>
    \A cx \in Contexts :
      LET g == GroupOf(hook.clickConfigs, cx)
      IN \A j1, j2 \in DOMAIN g :
           (/\ j1 < j2
            /\ hook.inst[g[j1].inst].status = "mounted"
            /\ hook.inst[g[j2].inst].status = "mounted")
             => g[j1].inst < g[j2].inst


(***************************************************************************)
(* The properties of throttle.                                             *)
(***************************************************************************)
\* C39: with the default options, two consecutive invocations of the wrapped
\* function with no cancel() between them are at least wait apart, and at most
\* one timeout is pending at any time.
C39_InvocationsAtLeastWaitApart ==
  (hook.leading /\ hook.trailing) =>
    /\ (hook.before # 0 /\ ~hook.cancelled) => hook.result - hook.before >= hook.wait
    /\ Cardinality(hook.timers) <= 1

\* The trailing timeout invokes the function, exactly wait after the invocation
\* before it.
C39_Witness ==
  /\ hook.leading /\ hook.trailing /\ hook.wait > 0
  /\ hook.ev = "timeout"
  /\ hook.result = hook.clock
  /\ hook.before # 0 /\ ~hook.cancelled
  /\ hook.result - hook.before = hook.wait

====
